---- MODULE Spec2Model ----
(***************************************************************************)
(* Idempotent intake pipeline of the log aggregator:                       *)
(*   POST /publish, /publish/batch  ->  Redis list "events_queue"          *)
(*   ->  Consumer.start loop (N workers)                                   *)
(*   ->  Database.process_event_idempotent (one PostgreSQL transaction)    *)
(*   ->  tables processed_events, events and the singleton stats row.      *)
(*                                                                         *)
(* The store is modelled at READ COMMITTED: a transaction's writes are     *)
(* private until COMMIT, INSERT ... ON CONFLICT DO NOTHING waits for an    *)
(* uncommitted row with the same unique key, and UPDATE stats takes the    *)
(* row lock of the singleton row until the transaction ends.               *)
(***************************************************************************)
EXTENDS Integers, Sequences, FiniteSets, TLC

\* ---- bounds of the model ------------------------------------------------
NumWorkers == 2
MaxPublished == 3
MaxBatch == 2
MaxErrors == 1
MaxCalls == 3
MaxRestarts == 1
NumTasks == 3
PoolSize == 2

Workers == 1..NumWorkers
Tasks == 1..NumTasks

\* ---- inputs -------------------------------------------------------------
\* models.Event after validation: the five fields of the schema.  The
\* payload stands for {"version": v}; publisher v stamps its own source
\* and timestamp.
Event(t, i, v) ==
    [topic |-> t, event_id |-> i, timestamp |-> 1700000000 + v,
     source |-> IF v = 1 THEN "publisher-1" ELSE "publisher-2",
     payload |-> v]

\* The events offered to the API: one key sent with two different bodies,
\* and the same event_id under a second topic.
ValidEvents ==
    { Event("topic.a", "shared_001", 1),
      Event("topic.a", "shared_001", 2),
      Event("topic.b", "shared_001", 1) }

\* Events with distinct event_ids and the bodies built from them, the empty
\* body included, for the runs that record the responses of the API.
ApiEvents ==
    { Event("topic.a", "shared_001", 1), Event("topic.a", "evt_002", 1) }
ApiBatches == UNION { [1..n -> ApiEvents] : n \in 0..MaxBatch }

\* The batch bodies offered to the API.
Batches == UNION { [1..n -> ValidEvents] : n \in 1..MaxBatch }

\* VALUES ($1, $2) of the dedup insert: event.topic, event.event_id.
KeyOf(e) == <<e.topic, e.event_id>>

\* str.strip(): the text between its leading and its trailing blanks.
\* lstrip and rstrip count the blanks from position k on and back.
RECURSIVE lstrip(_, _)
lstrip(s, k) ==
    IF k <= Len(s) /\ SubSeq(s, k, k) = " " THEN lstrip(s, k + 1) ELSE k - 1
RECURSIVE rstrip(_, _)
rstrip(s, k) ==
    IF k >= 1 /\ SubSeq(s, k, k) = " " THEN rstrip(s, k - 1) ELSE Len(s) - k
strip(s) ==
    IF lstrip(s, 1) = Len(s)
    THEN ""
    ELSE SubSeq(s, lstrip(s, 1) + 1, Len(s) - rstrip(s, Len(s)))

\* Field(..., min_length=1, max_length=255) of topic, event_id and source.
Field_min_length == 1
Field_max_length == 255

\* Faulty variant: without str_strip_whitespace the lengths are checked on
\* the text as sent and only the field validator strips.
StrField_unstripped(v) ==
    IF Len(v) >= Field_min_length /\ Len(v) <= Field_max_length
    THEN <<strip(v)>>
    ELSE <<>>

\* Validation of topic, event_id or source: str_strip_whitespace strips the
\* text, min_length and max_length are checked on the stripped text, then
\* the field validator strip_whitespace strips what has passed.  <<>> is a
\* ValidationError.
StrField(v) ==
    IF Len(strip(v)) >= Field_min_length /\ Len(strip(v)) <= Field_max_length
    THEN <<strip(strip(v))>>
    ELSE <<>>

\* An ISO-8601 text is <<clock reading in seconds, zone>>, the zone being
\* "Z", an offset or "" (none).  Seconds a zone is ahead of UTC.
utcoffset(zone) ==
    CASE zone = "+07:00" -> 25200
      [] zone = "-05:00" -> 0 - 18000
      [] OTHER -> 0

\* parse_timestamp_with_timezone: fromisoformat(v.replace('Z', '+00:00')),
\* then astimezone(utc), or replace(tzinfo=utc) when the text has no zone.
\* The datetime of a validated Event is its UTC clock reading.
parse_timestamp_with_timezone(v) == v[1] - utcoffset(v[2])

\* The validation of the identifiers the publishers use, tabulated: StrField
\* is a function of the text alone, and Fields[v] is StrField(v).
Texts ==
    { "", "topic.a", "topic.b", "shared_001", "evt_002", "publisher-1",
      "publisher-2" }
Fields == [v \in Texts |-> StrField(v)]
Field(v) == IF v \in Texts THEN Fields[v] ELSE StrField(v)

\* Event(**data): every str field is validated, the timestamp parsed; <<>>
\* stands for a ValidationError.
Validate(data) ==
    IF \/ Field(data.topic) = <<>>
       \/ Field(data.event_id) = <<>>
       \/ Field(data.source) = <<>>
    THEN <<>>
    ELSE <<[topic |-> Field(data.topic)[1],
            event_id |-> Field(data.event_id)[1],
            timestamp |-> parse_timestamp_with_timezone(data.timestamp),
            source |-> Field(data.source)[1], payload |-> data.payload]>>

\* Faulty variant: the timestamp is written as the local time of a server
\* seven hours ahead of UTC, without a zone.
model_dump_json_local(e) ==
    <<"json", e.topic, e.event_id, <<e.timestamp + 25200, "">>, e.source,
      e.payload>>

\* event.model_dump_json(): the JSON text pushed on the queue; a datetime
\* in UTC is written with the suffix Z.
model_dump_json(e) ==
    <<"json", e.topic, e.event_id, <<e.timestamp, "Z">>, e.source, e.payload>>

\* Messages that are not events: text that is not JSON, and a JSON object
\* whose topic is empty.
PoisonMessages ==
    { <<"text", "{not json">>,
      <<"json", "", "shared_001", <<1700000001, "Z">>, "publisher-1", 1>> }

\* json.loads(message): the dictionary of a JSON text.
loads(m) ==
    [topic |-> m[2], event_id |-> m[3], timestamp |-> m[4],
     source |-> m[5], payload |-> m[6]]

\* json.loads(message) returns, and Event(**event_data) validates.
IsJson(m) == m[1] = "json"
EventValid(m) == Validate(loads(m)) # <<>>

\* json.loads(message) followed by Event(**event_data).
ParseEvent(m) == Validate(loads(m))[1]

\* event.timestamp.isoformat() and json.dumps(event.payload).
isoformat(ts) == <<ts, "+00:00">>
json_dumps(p) == <<"jsontext", p>>
json_loads(s) == s[2]

\* The row written by INSERT INTO events.
EventRow(e) ==
    [topic |-> e.topic, event_id |-> e.event_id,
     timestamp |-> isoformat(e.timestamp), source |-> e.source,
     payload |-> json_dumps(e.payload)]

\* A text of n letters.
RECURSIVE Letters(_)
Letters(n) ==
    IF n = 0 THEN ""
    ELSE IF n % 2 = 1 THEN "x" \o Letters(n - 1)
    ELSE Letters(n \div 2) \o Letters(n \div 2)

\* JSON bodies sent to POST /publish: an event; the same event padded with
\* blanks and stamped in another zone; a topic of blanks only; a topic of
\* 255 letters between blanks; a topic of 256 letters.
Body(t, i, ts) ==
    [topic |-> t, event_id |-> i, timestamp |-> ts, source |-> "publisher-1",
     payload |-> 1]
RawBodies ==
    { Body("topic.a", "shared_001", <<1700000001, "Z">>),
      Body("  topic.a  ", " shared_001", <<1700025201, "+07:00">>),
      Body("   ", "shared_001", <<1700000001, "Z">>),
      Body(" " \o Letters(Field_max_length) \o " ", "shared_001 ",
           <<1700000001, "">>),
      Body(Letters(Field_max_length + 1), "shared_001", <<1700000001, "Z">>) }

\* ---- state --------------------------------------------------------------
VARIABLES
    queue,             \* Redis list events_queue, head first
    batch,             \* events of the running /publish/batch not yet pushed
    pc,                \* pc[w]: the await worker w is suspended at
    cur,               \* cur[w]: <<event>> held by worker w, or <<>>
    result,            \* result[w]: command tag of the dedup INSERT
    txn,               \* txn[w]: uncommitted writes of w's transaction
    processed_events,  \* committed rows of processed_events
    events,            \* committed rows of events
    stats,             \* committed singleton stats row
    pushed,            \* history: every event ever enqueued, in order
    results,           \* history: returns of process_event_idempotent
    raised,            \* history: store failures; TRUE when the failed
                       \* transaction had inserted its dedup row
    pool,              \* Database.pool: open flag, max_size, leased connections
    restarts,          \* history: Len(results) at each reconnect of the pool
    caller,            \* caller[w]: who awaits process_event_idempotent,
                       \* "start" (Consumer.start) or "test" (a direct call)
    running,           \* running[w]: Consumer.running
    redis,             \* redis[w]: Consumer.redis, None, open or closed
    popped,            \* history: messages removed from the list, in order
    junk,              \* history: number of undecodable messages enqueued
    trace,             \* the histories this run records: "responses", "pops"
    request,           \* the last request recorded: the body of a
                       \* /publish/batch, <<topic, limit>> of a GET /events
    response,          \* the last HTTP response recorded
    batch_results,     \* results list of the running /publish/batch
    stats_row,         \* row fetched by the running GET /stats, or <<>>
    offered,           \* name of what the clients of this run send (Sent)
    redis_up,          \* whether the Redis server answers
    lifespan,          \* the statement lifespan (main.py) is at
    db,                \* main.db: None or the Database handle
    redis_client,      \* main.redis_client: None, open or closed
    consumer_task      \* main.consumer_task: None or where start_consumers is

poolVars == <<pool, restarts>>
loopVars == <<caller, running, redis, popped, junk>>
apiVars == <<trace, request, response, batch_results, stats_row>>
envVars == <<offered, redis_up>>
mainVars == <<lifespan, db, redis_client, consumer_task>>
storeVars == <<processed_events, events, stats>>

vars == <<queue, batch, pc, cur, result, txn, processed_events, events,
          stats, pushed, results, raised, poolVars, loopVars, apiVars, envVars, mainVars>>

NoTxn == [dedup |-> <<>>, event |-> <<>>, stats |-> <<>>, waited |-> FALSE]

ZeroStats == [received_count |-> 0, unique_processed_count |-> 0,
              duplicate_dropped_count |-> 0, started_at |-> "created"]

\* asyncpg.create_pool(..., max_size=20) in Database.connect.
max_size == 20

\* The pool as create_pool returns it, and the pool after pool.close().
OpenPool(size) == [open |-> TRUE, max_size |-> size, leased |-> 0]
ClosedPool(p) == [p EXCEPT !.open = FALSE]

\* events: List[Event] = Field(..., min_length=1, max_length=1000)
min_length == 1
max_length == 1000

\* Validation of the body into an EventBatch.
\* Faulty variant: the list has no upper bound.
EventBatchValid_unbounded(b) == Len(b) >= min_length

EventBatchValid(b) == Len(b) >= min_length /\ Len(b) <= max_length

\* Bodies at and around the two limits of the list, all of one event.
BoundaryBatches ==
    { [i \in 1..n |-> Event("topic.a", "shared_001", 1)] :
        n \in {min_length - 1, min_length, max_length, max_length + 1} }

\* What the clients of a run send: single events and batch bodies to the
\* API, raw messages straight to the Redis list, and how many in all.  The
\* bodies that validate into an EventBatch reach the handler; FastAPI answers
\* the others itself.
Clients(E, B, R, n) ==
    [events |-> E,
     batches |-> { b \in B : EventBatchValid(b) },
     rejected |-> { b \in B : ~EventBatchValid(b) },
     raw |-> R, total |-> n]

\* The clients of each kind of run.
PipelineClients == Clients(ValidEvents, Batches, {}, MaxPublished)
ApiClients == Clients(ApiEvents, ApiBatches, {}, MaxPublished)
LimitClients == Clients({}, BoundaryBatches, {}, max_length + 1)
PoisonClients ==
    Clients({ Event("topic.a", "shared_001", 1),
              Event("topic.b", "shared_001", 1) }, {}, PoisonMessages,
            MaxPublished)
FaultClients ==
    Clients({ Event("topic.a", "shared_001", 1) }, {}, PoisonMessages,
            MaxPublished)
LifeClients ==
    Clients({ Event("topic.a", "shared_001", 1) }, {}, {}, MaxPublished)
QueryClients ==
    Clients({ Event("topic.a", "shared_001", 1),
              Event("topic.b", "shared_001", 1) }, {}, {}, MaxPublished)
BodyClients == Clients({}, {}, {}, MaxPublished)
OrderClients == Clients(ValidEvents, {}, {}, MaxPublished)
NoClients == Clients({}, {}, {}, 0)

\* What the clients of this run send.
Sent ==
    CASE offered = "pipeline" -> PipelineClients
      [] offered = "api" -> ApiClients
      [] offered = "limits" -> LimitClients
      [] offered = "poison" -> PoisonClients
      [] offered = "faults" -> FaultClients
      [] offered = "life" -> LifeClients
      [] offered = "query" -> QueryClients
      [] offered = "bodies" -> BodyClients
      [] offered = "order" -> OrderClients
      [] OTHER -> NoClients

\* The response slot before any request was answered.
NoResponse == [kind |-> "none"]

\* Coroutines T, all suspended at `at`, holding nothing; who = "start" for
\* workers inside Consumer.start, "test" for coroutines of a test.
InitTasks(T, at, who) ==
    /\ pc = [w \in T |-> at]
    /\ cur = [w \in T |-> <<>>]
    /\ result = [w \in T |-> ""]
    /\ txn = [w \in T |-> NoTxn]
    /\ caller = [w \in T |-> who]
    /\ running = [w \in T |-> who = "start"]
    /\ redis = [w \in T |-> IF who = "start" THEN "open" ELSE "None"]

\* Tables, queue and histories of a fresh deployment.
InitData ==
    /\ queue = <<>>
    /\ batch = <<>>
    /\ processed_events = <<>>
    /\ events = <<>>
    /\ stats = ZeroStats
    /\ pushed = <<>>
    /\ results = <<>>
    /\ raised = <<>>
    /\ restarts = <<>>
    /\ popped = <<>>
    /\ junk = 0
    /\ request = <<>>
    /\ response = NoResponse
    /\ batch_results = <<>>
    /\ stats_row = <<>>
    /\ redis_up = TRUE

\* The globals of main.py once lifespan has yielded and start_consumers
\* awaits its workers.
Serving ==
    /\ lifespan = "ready"
    /\ db = "Database"
    /\ redis_client = "open"
    /\ consumer_task = "gather"

\* The service after startup: the pool is connected and every worker sits in
\* its first blpop; no history of responses or pops is kept.
Init ==
    /\ InitData
    /\ Serving
    /\ InitTasks(Workers, "blpop", "start")
    /\ pool = OpenPool(max_size)
    /\ trace = {}
    /\ offered = "pipeline"

\* ---- store helpers --------------------------------------------------------
\* Faulty variant: the unique index and conflict target are on event_id alone.
ConflictTarget_event_id(row) == <<row[2]>>

\* ON CONFLICT (topic, event_id): the columns of the unique index.
ConflictTarget(row) == <<row[1], row[2]>>

\* Faulty variant: the insert never sees a committed row (no unique index lookup).
CommittedConflict_never(k) == FALSE

\* A committed processed_events row with this (topic, event_id) exists.
CommittedConflict(k) ==
    \E i \in 1..Len(processed_events) :
        ConflictTarget(processed_events[i]) = ConflictTarget(k)

\* Faulty variant: an uncommitted row of another transaction is not waited for.
UncommittedConflict_never(w, k) == FALSE

\* Another open transaction holds an uncommitted processed_events row for k:
\* the unique index makes the inserter wait for that transaction to end.
UncommittedConflict(w, k) ==
    \E w2 \in DOMAIN txn \ {w} : \E i \in 1..Len(txn[w2].dedup) :
        ConflictTarget(txn[w2].dedup[i]) = ConflictTarget(k)

\* Faulty variant: UPDATE stats writes back a value read without the row lock.
StatsRowLocked_never(w) == FALSE

\* The row lock of stats (id = 1) is held by another open transaction.
StatsRowLocked(w) == \E w2 \in DOMAIN txn \ {w} : txn[w2].stats # <<>>

\* The row version an UPDATE of this transaction starts from.
StatsRowSeen(w) == IF txn[w].stats # <<>> THEN txn[w].stats[1] ELSE stats

\* Faulty variant: the duplicate path forgets duplicate_dropped_count.
UpdateStatsDuplicate_received_only(row) ==
    [row EXCEPT !.received_count = @ + 1]

\* SET clause of UPDATE stats on the duplicate path.
UpdateStatsDuplicate(row) ==
    [row EXCEPT !.duplicate_dropped_count = @ + 1, !.received_count = @ + 1]

\* Faulty variant: the new path forgets unique_processed_count.
UpdateStatsNew_received_only(row) ==
    [row EXCEPT !.received_count = @ + 1]

\* SET clause of UPDATE stats on the new path.
UpdateStatsNew(row) ==
    [row EXCEPT !.received_count = @ + 1, !.unique_processed_count = @ + 1]

\* ---- ingestion API --------------------------------------------------------
\* Messages sent so far: events pushed or still to be pushed by a batch, and
\* raw messages.
Accepted == Len(pushed) + Len(batch) + junk

\* Faulty variant: the message is pushed at the head of the list (lpush).
lpush(e) ==
    /\ queue' = <<model_dump_json(e)>> \o queue
    /\ pushed' = Append(pushed, e)

\* redis_client.rpush("events_queue", event.model_dump_json())
rpush(e) ==
    /\ queue' = Append(queue, model_dump_json(e))
    /\ pushed' = Append(pushed, e)

\* models.EventResponse, models.BatchResponse and the error responses.
EventResponse(id, status, ok) ==
    [kind |-> "event", event_id |-> id, status |-> status, success |-> ok]
HTTPException(code) == [kind |-> "error", status_code |-> code]
SuccessCount(out) == Cardinality({ i \in 1..Len(out) : out[i].success })
BatchResponse(n, out) ==
    [kind |-> "batch", total |-> n, success |-> SuccessCount(out),
     failed |-> n - SuccessCount(out), results |-> out]

\* What a run keeps of a value it may record (responses, request bodies and
\* the handler's results list are kept only by runs that record them).
Recorded(old, new) == IF "responses" \in trace THEN new ELSE old

\* POST /publish with a JSON body: FastAPI validates the body as an Event
\* and answers 422 when that fails, else publish_event runs with the Event.
post_publish ==
    /\ Accepted < Sent.total
    /\ redis_up
    /\ \E body \in RawBodies :
        /\ request' = Recorded(request, <<body>>)
        /\ IF Validate(body) = <<>>
           THEN /\ UNCHANGED <<queue, pushed>>
                /\ response' = Recorded(response, HTTPException(422))
           ELSE LET e == Validate(body)[1]
                IN /\ rpush(e)
                   /\ response' = Recorded(response,
                          EventResponse(e.event_id, "queued", TRUE))
        /\ UNCHANGED <<batch, pc, cur, result, txn, processed_events, events,
                       stats, results, raised, poolVars, loopVars, trace,
                       batch_results, stats_row, envVars, mainVars>>

\* Faulty variant: the handler also stores the event itself.
publish_event_inline ==
    /\ Accepted < Sent.total
    /\ \E e \in Sent.events :
        /\ redis_up
        /\ rpush(e)
        /\ events' = Append(events, EventRow(e))
        /\ response' = Recorded(response,
                                EventResponse(e.event_id, "queued", TRUE))
        /\ UNCHANGED <<batch, pc, cur, result, txn, processed_events,
                       stats, results, raised, poolVars, loopVars, trace,
                       request, batch_results, stats_row, envVars, mainVars>>

\* Faulty variant: a failed rpush is swallowed and the event reported queued.
publish_event_swallow ==
    /\ Accepted < Sent.total
    /\ \E e \in Sent.events :
        /\ IF redis_up THEN rpush(e) ELSE UNCHANGED <<queue, pushed>>
        /\ response' = Recorded(response,
                                EventResponse(e.event_id, "queued", TRUE))
        /\ UNCHANGED <<batch, pc, cur, result, txn, processed_events, events,
                       stats, results, raised, poolVars, loopVars, trace,
                       request, batch_results, stats_row, envVars, mainVars>>

\* POST /publish
publish_event ==
    /\ Accepted < Sent.total
    /\ \E e \in Sent.events :
        /\ IF redis_up
           THEN /\ rpush(e)
                /\ response' = Recorded(response,
                                        EventResponse(e.event_id, "queued", TRUE))
           ELSE /\ UNCHANGED <<queue, pushed>>
                /\ response' = Recorded(response, HTTPException(500))
        /\ UNCHANGED <<batch, pc, cur, result, txn, processed_events, events,
                       stats, results, raised, poolVars, loopVars, trace,
                       request, batch_results, stats_row, envVars, mainVars>>

\* POST /publish/batch: the body is validated into an EventBatch (422 when it
\* is not one) and the handler starts iterating over batch.events.
publish_batch ==
    /\ batch = <<>>
    /\ \/ /\ Accepted < Sent.total
          /\ \E b \in Sent.batches :
                /\ Len(b) <= Sent.total - Accepted
                /\ batch' = b
                /\ request' = Recorded(request, b)
                /\ response' = response
       \/ \E b \in Sent.rejected :
             /\ batch' = batch
             /\ request' = Recorded(request, b)
             /\ response' = Recorded(response, HTTPException(422))
    /\ UNCHANGED <<queue, pc, cur, result, txn, processed_events, events,
                   stats, pushed, results, raised, poolVars, loopVars,
                   trace, batch_results, stats_row, envVars, mainVars>>

\* Faulty variant: the first failed rpush aborts the whole batch with a 500.
publish_batch_push_abort ==
    /\ batch # <<>>
    /\ LET e == Head(batch)
           out == Append(batch_results,
                         EventResponse(e.event_id, "queued", TRUE))
       IN IF redis_up
          THEN /\ rpush(e)
               /\ batch' = Tail(batch)
               /\ IF Len(batch) = 1
                  THEN /\ response' = Recorded(response,
                                               BatchResponse(Len(request), out))
                       /\ batch_results' = <<>>
                  ELSE /\ response' = response
                       /\ batch_results' = Recorded(batch_results, out)
          ELSE /\ UNCHANGED <<queue, pushed>>
               /\ batch' = <<>>
               /\ batch_results' = <<>>
               /\ response' = Recorded(response, HTTPException(500))
    /\ UNCHANGED <<pc, cur, result, txn, processed_events, events, stats,
                   results, raised, poolVars, loopVars, trace, request,
                   stats_row, envVars, mainVars>>

\* One iteration of the loop of publish_batch; after the last one the handler
\* returns the BatchResponse.
publish_batch_push ==
    /\ batch # <<>>
    /\ LET e == Head(batch)
           out == Append(batch_results,
                         IF redis_up
                         THEN EventResponse(e.event_id, "queued", TRUE)
                         ELSE EventResponse(e.event_id, "error", FALSE))
       IN /\ IF redis_up THEN rpush(e) ELSE UNCHANGED <<queue, pushed>>
          /\ batch' = Tail(batch)
          /\ IF Len(batch) = 1
             THEN /\ response' = Recorded(response,
                                          BatchResponse(Len(request), out))
                  /\ batch_results' = <<>>
             ELSE /\ response' = response
                  /\ batch_results' = Recorded(batch_results, out)
    /\ UNCHANGED <<pc, cur, result, txn, processed_events, events, stats,
                   results, raised, poolVars, loopVars, trace, request,
                   stats_row, envVars, mainVars>>

\* ---- other producers -----------------------------------------------------------
\* A client of the Redis server pushes a message that is not an event on
\* events_queue.
push_raw ==
    /\ Accepted < Sent.total
    /\ \E m \in Sent.raw :
        /\ redis_up
        /\ queue' = Append(queue, m)
        /\ junk' = junk + 1
        /\ UNCHANGED <<batch, pc, cur, result, txn, processed_events, events,
                       stats, pushed, results, raised, poolVars, caller, redis,
                       running, popped, apiVars, envVars, mainVars>>

\* ---- broker availability ------------------------------------------------------
\* The Redis server stops answering (commands raise), and answers again.
redis_down ==
    /\ redis_up
    /\ redis_up' = FALSE
    /\ UNCHANGED <<queue, batch, pc, cur, result, txn, processed_events,
                   events, stats, pushed, results, raised, poolVars, loopVars,
                   apiVars, offered, mainVars>>

redis_back ==
    /\ ~redis_up
    /\ redis_up' = TRUE
    /\ UNCHANGED <<queue, batch, pc, cur, result, txn, processed_events,
                   events, stats, pushed, results, raised, poolVars, loopVars,
                   apiVars, offered, mainVars>>

\* ---- read API ---------------------------------------------------------------
\* The orders in which the rows of a set can come back.
Orderings(S) ==
    { f \in [1..Cardinality(S) -> S] :
        \A i, j \in 1..Cardinality(S) : f[i] = f[j] => i = j }

\* The dictionary Database.get_events builds from a row of events.
EventDict(row) ==
    [topic |-> row.topic, event_id |-> row.event_id,
     timestamp |-> row.timestamp, source |-> row.source,
     payload |-> json_loads(row.payload)]

\* Query(None) or a topic (the empty one of "?topic=" included), and limit:
\* Query(100, ge=1, le=1000).
default_limit == 100
None == "None"
TopicFilters == {None, "", "topic.a", "topic.b"}
Limits == {1, default_limit}

\* if topic: query += " WHERE topic = $1".
Filtered(topic) == topic \notin {None, ""}

\* GET /events: SELECT ... FROM events [WHERE topic = $1] ORDER BY received_at
\* DESC LIMIT $n.  received_at is set by the database; the model does not
\* track it, so every order of the matching rows is allowed.
get_events ==
    \E topic \in TopicFilters : \E limit \in Limits :
        LET matching == { i \in 1..Len(events) :
                             Filtered(topic) => events[i].topic = topic }
        IN \E order \in Orderings(matching) :
            LET n == IF Len(order) < limit THEN Len(order) ELSE limit
                rows == [i \in 1..n |-> EventDict(events[order[i]])]
            IN /\ request' = Recorded(request, <<topic, limit>>)
               /\ response' = Recorded(response,
                                       [kind |-> "events", total |-> n,
                                        events |-> rows, topic_filter |-> topic])
               /\ UNCHANGED <<queue, batch, pc, cur, result, txn,
                              processed_events, events, stats, pushed, results,
                              raised, poolVars, loopVars, trace,
                              batch_results, stats_row, envVars, mainVars>>

\* GET /stats, first statement: SELECT ... FROM stats WHERE id = 1.
get_stats_row ==
    /\ stats_row = <<>>
    /\ stats_row' = Recorded(stats_row, <<stats>>)
    /\ UNCHANGED <<queue, batch, pc, cur, result, txn, processed_events,
                   events, stats, pushed, results, raised, poolVars, loopVars,
                   trace, request, response, batch_results, envVars, mainVars>>

\* GET /stats, second statement: SELECT COUNT(DISTINCT topic) FROM events,
\* then the StatsResponse is returned.
get_stats ==
    /\ "responses" \in trace => stats_row # <<>>
    /\ LET row == IF "responses" \in trace THEN stats_row[1] ELSE stats
           active_topics == Cardinality({ events[i].topic : i \in 1..Len(events) })
       IN response' = Recorded(response,
              [kind |-> "stats", received_total |-> row.received_count,
               unique_processed |-> row.unique_processed_count,
               duplicate_dropped |-> row.duplicate_dropped_count,
               active_topics |-> active_topics,
               started_at |-> row.started_at])
    /\ stats_row' = <<>>
    /\ UNCHANGED <<queue, batch, pc, cur, result, txn, processed_events,
                   events, stats, pushed, results, raised, poolVars, loopVars,
                   trace, request, batch_results, envVars, mainVars>>

\* SELECT 1 on a connection of the pool: it raises when there is no open
\* pool or the store does not answer.
ping(answers) == IF pool.open /\ answers THEN "ok" ELSE "raise"

\* Faulty variant: no try/except around the ping, its outcome is passed on.
Database_health_check_raises(answers) == ping(answers)

\* Database.health_check: True after the ping, False on any exception.
Database_health_check(answers) ==
    IF ping(answers) = "ok" THEN "True" ELSE "False"

\* GET /health: db_healthy = await db.health_check() if db else False; 503
\* unless it is True.  An exception leaving the handler is a 500.
health_check ==
    /\ \E answers \in BOOLEAN :
          LET db_healthy == IF db # "None" THEN Database_health_check(answers)
                                           ELSE "False"
          IN response' = Recorded(response,
                 CASE db_healthy = "True" ->
                          [kind |-> "health", status |-> "healthy"]
                   [] db_healthy = "False" -> HTTPException(503)
                   [] OTHER -> HTTPException(500))
    /\ UNCHANGED <<queue, batch, pc, cur, result, txn, processed_events,
                   events, stats, pushed, results, raised, poolVars, loopVars,
                   trace, request, batch_results, stats_row, envVars, mainVars>>

\* ---- connection pool (Database.pool) ---------------------------------------
\* pool.acquire() can hand out a connection at once.
CanAcquire(p) == p.open /\ p.leased < p.max_size

\* async with self.pool.acquire() as conn: entering and leaving the block.
Lease(p) == [p EXCEPT !.leased = @ + 1]

\* Faulty variant: the connection is not handed back to the pool.
Release_leak(p) == p

Release(p) == [p EXCEPT !.leased = @ - 1]

\* ---- worker loop (Consumer.start) ------------------------------------------
\* while self.running: the loop goes on to blpop or the coroutine returns.
LoopHead(w) == IF running[w] THEN "blpop" ELSE "exited"

\* Where control goes when process_event_idempotent returns or raises in a
\* direct call: back to the awaiting test coroutine.
AfterCall(w, inLoop) == IF caller[w] = "start" THEN inLoop ELSE "idle"

\* blpop timed out on an empty list: result is None, continue; the loop
\* condition holds and the worker is back in blpop with nothing changed.
PopTimeout(w) ==
    /\ pc[w] = "blpop"
    /\ redis_up
    /\ queue = <<>>
    /\ pc' = [pc EXCEPT ![w] = LoopHead(w)]
    /\ UNCHANGED <<queue, batch, cur, result, txn, processed_events, events,
                   stats, pushed, results, raised, poolVars, loopVars, apiVars, envVars, mainVars>>

\* Faulty variant: a message that cannot be parsed is pushed back for a retry.
Pop_requeue(w) ==
    /\ pc[w] = "blpop"
    /\ redis_up
    /\ queue # <<>>
    /\ popped' = IF "pops" \in trace THEN Append(popped, Head(queue))
                                     ELSE popped
    /\ LET m == Head(queue) IN
         IF ~IsJson(m) \/ ~EventValid(m)
         THEN /\ queue' = Append(Tail(queue), m)
              /\ pc' = [pc EXCEPT ![w] = LoopHead(w)]
              /\ UNCHANGED <<cur, txn, pool>>
         ELSE /\ queue' = Tail(queue)
              /\ cur' = [cur EXCEPT ![w] = <<ParseEvent(m)>>]
              /\ txn' = [txn EXCEPT ![w] = NoTxn]
              /\ pool' = Lease(pool)
              /\ pc' = [pc EXCEPT ![w] = "dedup"]
    /\ UNCHANGED <<batch, result, processed_events, events, stats,
                   pushed, results, raised, restarts, caller, redis, running, junk,
                   apiVars, envVars, mainVars>>

\* Faulty variant: the message is read and left at the head of the list.
Pop_peek(w) ==
    /\ pc[w] = "blpop"
    /\ redis_up
    /\ queue # <<>>
    /\ queue' = queue
    /\ popped' = IF "pops" \in trace THEN Append(popped, Head(queue))
                                     ELSE popped
    /\ LET m == Head(queue) IN
         IF ~IsJson(m)
         THEN /\ pc' = [pc EXCEPT ![w] = LoopHead(w)]
              /\ UNCHANGED <<cur, txn, pool>>
         ELSE IF ~EventValid(m)
         THEN /\ pc' = [pc EXCEPT ![w] = "backoff"]
              /\ UNCHANGED <<cur, txn, pool>>
         ELSE /\ cur' = [cur EXCEPT ![w] = <<ParseEvent(m)>>]
              /\ txn' = [txn EXCEPT ![w] = NoTxn]
              /\ pool' = Lease(pool)
              /\ pc' = [pc EXCEPT ![w] = "dedup"]
    /\ UNCHANGED <<batch, result, processed_events, events, stats,
                   pushed, results, raised, restarts, caller, redis, running, junk,
                   apiVars, envVars, mainVars>>

\* Faulty variant: the message is taken from the tail of the list.
Pop_last(w) ==
    /\ pc[w] = "blpop"
    /\ redis_up
    /\ queue # <<>>
    /\ queue' = SubSeq(queue, 1, Len(queue) - 1)
    /\ popped' = IF "pops" \in trace THEN Append(popped, queue[Len(queue)])
                                     ELSE popped
    /\ LET m == queue[Len(queue)] IN
         IF ~IsJson(m)
         THEN /\ pc' = [pc EXCEPT ![w] = LoopHead(w)]
              /\ UNCHANGED <<cur, txn, pool>>
         ELSE IF ~EventValid(m)
         THEN /\ pc' = [pc EXCEPT ![w] = "backoff"]
              /\ UNCHANGED <<cur, txn, pool>>
         ELSE /\ cur' = [cur EXCEPT ![w] = <<ParseEvent(m)>>]
              /\ txn' = [txn EXCEPT ![w] = NoTxn]
              /\ pool' = Lease(pool)
              /\ pc' = [pc EXCEPT ![w] = "dedup"]
    /\ UNCHANGED <<batch, result, processed_events, events, stats,
                   pushed, results, raised, restarts, caller, redis, running, junk,
                   apiVars, envVars, mainVars>>

\* blpop returned the head of the list.  json.loads raising JSONDecodeError
\* is logged and the loop goes on; Event(**event_data) raising is caught by
\* except Exception, which sleeps.  Otherwise process_event_idempotent is
\* called, which leases a connection and opens the transaction (async with
\* pool.acquire(), conn.transaction()).
Pop(w) ==
    /\ pc[w] = "blpop"
    /\ redis_up
    /\ queue # <<>>
    /\ queue' = Tail(queue)
    /\ popped' = IF "pops" \in trace THEN Append(popped, Head(queue))
                                     ELSE popped
    /\ LET m == Head(queue) IN
         IF ~IsJson(m)
         THEN /\ pc' = [pc EXCEPT ![w] = LoopHead(w)]
              /\ UNCHANGED <<cur, txn, pool>>
         ELSE IF ~EventValid(m)
         THEN /\ pc' = [pc EXCEPT ![w] = "backoff"]
              /\ UNCHANGED <<cur, txn, pool>>
         ELSE /\ cur' = [cur EXCEPT ![w] = <<ParseEvent(m)>>]
              /\ txn' = [txn EXCEPT ![w] = NoTxn]
              /\ pool' = Lease(pool)
              /\ pc' = [pc EXCEPT ![w] = "dedup"]
    /\ UNCHANGED <<batch, result, processed_events, events, stats,
                   pushed, results, raised, restarts, caller, redis, running, junk,
                   apiVars, envVars, mainVars>>

\* Faulty variant: the exception of blpop is not caught and ends the coroutine.
BrokerError_fatal(w) ==
    /\ pc[w] = "blpop"
    /\ ~redis_up
    /\ pc' = [pc EXCEPT ![w] = "exited"]
    /\ UNCHANGED <<queue, batch, cur, result, txn, processed_events, events,
                   stats, pushed, results, raised, poolVars, loopVars, apiVars,
                   envVars, mainVars>>

\* blpop raises because the Redis server does not answer: except Exception
\* logs the error and sleeps.
BrokerError(w) ==
    /\ pc[w] = "blpop"
    /\ ~redis_up
    /\ pc' = [pc EXCEPT ![w] = "backoff"]
    /\ UNCHANGED <<queue, batch, cur, result, txn, processed_events, events,
                   stats, pushed, results, raised, poolVars, loopVars, apiVars,
                   envVars, mainVars>>

\* ---- process_event_idempotent ----------------------------------------------
\* Faulty variant: a plain INSERT, whose unique violation escapes the transaction
\* and reaches the except branch of the worker.
DedupInsert_raises(w) ==
    /\ pc[w] = "dedup"
    /\ LET k == KeyOf(cur[w][1]) IN
         IF CommittedConflict(k)
         THEN /\ txn' = [txn EXCEPT ![w] = NoTxn]
              /\ cur' = [cur EXCEPT ![w] = <<>>]
              /\ result' = [result EXCEPT ![w] = ""]
              /\ pool' = Release(pool)
              /\ pc' = [pc EXCEPT ![w] = "backoff"]
         ELSE IF UncommittedConflict(w, k)
         THEN /\ pc' = [pc EXCEPT ![w] = "dedup_wait"]
              /\ txn' = [txn EXCEPT ![w].waited = TRUE]
              /\ UNCHANGED <<result, cur, pool>>
         ELSE /\ txn' = [txn EXCEPT ![w].dedup = Append(@, k)]
              /\ result' = [result EXCEPT ![w] = "INSERT 0 1"]
              /\ pc' = [pc EXCEPT ![w] = "check"]
              /\ UNCHANGED <<cur, pool>>
    /\ UNCHANGED <<queue, batch, processed_events, events, stats, pushed,
                   results, raised, restarts, loopVars, apiVars, envVars, mainVars>>

\* Faulty variant: the dedup insert runs outside the transaction (autocommit).
DedupInsert_autocommit(w) ==
    /\ pc[w] = "dedup"
    /\ LET k == KeyOf(cur[w][1]) IN
         IF CommittedConflict(k)
         THEN /\ result' = [result EXCEPT ![w] = "INSERT 0 0"]
              /\ processed_events' = processed_events
         ELSE /\ result' = [result EXCEPT ![w] = "INSERT 0 1"]
              /\ processed_events' = Append(processed_events, k)
    /\ pc' = [pc EXCEPT ![w] = "check"]
    /\ UNCHANGED <<queue, batch, cur, txn, events, stats, pushed, results,
                   raised, poolVars, loopVars, apiVars, envVars, mainVars>>

\* Step 1: INSERT INTO processed_events ... ON CONFLICT DO NOTHING.
DedupInsert(w) ==
    /\ pc[w] = "dedup"
    /\ LET k == KeyOf(cur[w][1]) IN
         IF CommittedConflict(k)
         THEN /\ result' = [result EXCEPT ![w] = "INSERT 0 0"]
              /\ pc' = [pc EXCEPT ![w] = "check"]
              /\ txn' = txn
         ELSE IF UncommittedConflict(w, k)
         THEN /\ pc' = [pc EXCEPT ![w] = "dedup_wait"]
              /\ txn' = [txn EXCEPT ![w].waited = TRUE]
              /\ result' = result
         ELSE /\ txn' = [txn EXCEPT ![w].dedup = Append(@, k)]
              /\ result' = [result EXCEPT ![w] = "INSERT 0 1"]
              /\ pc' = [pc EXCEPT ![w] = "check"]
    /\ UNCHANGED <<queue, batch, cur, processed_events, events, stats,
                   pushed, results, raised, poolVars, loopVars, apiVars, envVars, mainVars>>

\* Faulty variant: the waiter is never woken when the other transaction ends.
DedupWake_lost(w) ==
    /\ pc[w] = "dedup_wait"
    /\ FALSE
    /\ UNCHANGED vars

\* The transaction the insert waited for has ended: the insert is retried.
DedupWake(w) ==
    /\ pc[w] = "dedup_wait"
    /\ ~UncommittedConflict(w, KeyOf(cur[w][1]))
    /\ pc' = [pc EXCEPT ![w] = "dedup"]
    /\ UNCHANGED <<queue, batch, cur, result, txn, processed_events, events,
                   stats, pushed, results, raised, poolVars, loopVars, apiVars, envVars, mainVars>>

\* Faulty variant: the duplicate path also overwrites the stored row (upsert).
DuplicatePath_overwrite(w) ==
    /\ pc[w] = "check"
    /\ result[w] = "INSERT 0 0"
    /\ ~StatsRowLocked(w)
    /\ txn' = [txn EXCEPT ![w].stats = <<UpdateStatsDuplicate(StatsRowSeen(w))>>]
    /\ events' = [i \in 1..Len(events) |->
                    IF <<events[i].topic, events[i].event_id>> = KeyOf(cur[w][1])
                    THEN EventRow(cur[w][1]) ELSE events[i]]
    /\ pc' = [pc EXCEPT ![w] = "return_false"]
    /\ UNCHANGED <<queue, batch, cur, result, processed_events, stats,
                   pushed, results, raised, poolVars, loopVars, apiVars, envVars, mainVars>>

\* Step 2: result == "INSERT 0 0": UPDATE stats (duplicate), return False.
DuplicatePath(w) ==
    /\ pc[w] = "check"
    /\ result[w] = "INSERT 0 0"
    /\ ~StatsRowLocked(w)
    /\ txn' = [txn EXCEPT ![w].stats = <<UpdateStatsDuplicate(StatsRowSeen(w))>>]
    /\ pc' = [pc EXCEPT ![w] = "return_false"]
    /\ UNCHANGED <<queue, batch, cur, result, processed_events, events,
                   stats, pushed, results, raised, poolVars, loopVars, apiVars, envVars, mainVars>>

\* Step 3: INSERT INTO events.
InsertEvent(w) ==
    /\ pc[w] = "check"
    /\ result[w] # "INSERT 0 0"
    /\ txn' = [txn EXCEPT ![w].event = Append(@, EventRow(cur[w][1]))]
    /\ pc' = [pc EXCEPT ![w] = "stats_new"]
    /\ UNCHANGED <<queue, batch, cur, result, processed_events, events,
                   stats, pushed, results, raised, poolVars, loopVars, apiVars, envVars, mainVars>>

\* Step 4: UPDATE stats (new), return True.
UpdateStats(w) ==
    /\ pc[w] = "stats_new"
    /\ ~StatsRowLocked(w)
    /\ txn' = [txn EXCEPT ![w].stats = <<UpdateStatsNew(StatsRowSeen(w))>>]
    /\ pc' = [pc EXCEPT ![w] = "return_true"]
    /\ UNCHANGED <<queue, batch, cur, result, processed_events, events,
                   stats, pushed, results, raised, poolVars, loopVars, apiVars, envVars, mainVars>>

\* Faulty variant: the rows committed replace the table.
CommitRows_replace(table, rows) == rows

\* What COMMIT makes of the committed tables.
CommitRows(table, rows) == table \o rows
CommitStats(w) == IF txn[w].stats = <<>> THEN stats ELSE txn[w].stats[1]

\* Leaving the transaction block: COMMIT, release the connection, return to
\* Consumer.start, which logs the outcome and calls blpop again.
Commit(w) ==
    /\ pc[w] \in {"return_false", "return_true"}
    /\ processed_events' = CommitRows(processed_events, txn[w].dedup)
    /\ events' = CommitRows(events, txn[w].event)
    /\ stats' = CommitStats(w)
    /\ results' = Append(results, [event |-> cur[w][1],
                                   is_new |-> (pc[w] = "return_true"),
                                   waited |-> txn[w].waited])
    /\ txn' = [txn EXCEPT ![w] = NoTxn]
    /\ cur' = [cur EXCEPT ![w] = <<>>]
    /\ result' = [result EXCEPT ![w] = ""]
    /\ pool' = Release(pool)
    /\ pc' = [pc EXCEPT ![w] = AfterCall(w, LoopHead(w))]
    /\ UNCHANGED <<queue, batch, pushed, raised, restarts, loopVars, apiVars, envVars, mainVars>>

InTransaction(w) ==
    pc[w] \in {"dedup", "dedup_wait", "check", "stats_new",
               "return_false", "return_true"}

\* What ROLLBACK leaves of the transaction's writes.
Rollback(t) == NoTxn

\* Faulty variant: the worker pushes the failed event back for a retry.
StoreError_requeue(w) ==
    /\ InTransaction(w)
    /\ Len(raised) < MaxErrors
    /\ raised' = Append(raised, txn[w].dedup # <<>>)
    /\ queue' = Append(queue, model_dump_json(cur[w][1]))
    /\ txn' = [txn EXCEPT ![w] = Rollback(@)]
    /\ cur' = [cur EXCEPT ![w] = <<>>]
    /\ result' = [result EXCEPT ![w] = ""]
    /\ pool' = Release(pool)
    /\ pc' = [pc EXCEPT ![w] = AfterCall(w, "backoff")]
    /\ UNCHANGED <<batch, processed_events, events, stats, pushed,
                   results, restarts, loopVars, apiVars, envVars, mainVars>>

\* Faulty variant: the failed transaction leaves its dedup row behind.
StoreError_partial(w) ==
    /\ InTransaction(w)
    /\ Len(raised) < MaxErrors
    /\ raised' = Append(raised, txn[w].dedup # <<>>)
    /\ processed_events' = CommitRows(processed_events, txn[w].dedup)
    /\ txn' = [txn EXCEPT ![w] = Rollback(@)]
    /\ cur' = [cur EXCEPT ![w] = <<>>]
    /\ result' = [result EXCEPT ![w] = ""]
    /\ pool' = Release(pool)
    /\ pc' = [pc EXCEPT ![w] = AfterCall(w, "backoff")]
    /\ UNCHANGED <<queue, batch, events, stats, pushed,
                   results, restarts, loopVars, apiVars, envVars, mainVars>>

\* A statement raises: the transaction block rolls back,
\* the connection is released and Consumer.start catches the exception.
StoreError(w) ==
    /\ InTransaction(w)
    /\ Len(raised) < MaxErrors
    /\ raised' = Append(raised, txn[w].dedup # <<>>)
    /\ txn' = [txn EXCEPT ![w] = Rollback(@)]
    /\ cur' = [cur EXCEPT ![w] = <<>>]
    /\ result' = [result EXCEPT ![w] = ""]
    /\ pool' = Release(pool)
    /\ pc' = [pc EXCEPT ![w] = AfterCall(w, "backoff")]
    /\ UNCHANGED <<queue, batch, processed_events, events, stats, pushed,
                   results, restarts, loopVars, apiVars, envVars, mainVars>>

\* except Exception: await asyncio.sleep(1), then blpop again.
Backoff(w) ==
    /\ pc[w] = "backoff"
    /\ pc' = [pc EXCEPT ![w] = LoopHead(w)]
    /\ UNCHANGED <<queue, batch, cur, result, txn, processed_events, events,
                   stats, pushed, results, raised, poolVars, loopVars, apiVars, envVars, mainVars>>

\* ---- direct calls and reconnects (tests) --------------------------------------
\* Calls of process_event_idempotent begun so far by the test coroutines.
Started ==
    Len(results) + Len(raised)
        + Cardinality({ w \in DOMAIN pc : pc[w] # "idle" })

\* A test coroutine awaits db.process_event_idempotent(event).
Call(w) ==
    \E e \in ValidEvents :
        /\ pc[w] = "idle"
        /\ Started < MaxCalls
        /\ cur' = [cur EXCEPT ![w] = <<e>>]
        /\ txn' = [txn EXCEPT ![w] = NoTxn]
        /\ pc' = [pc EXCEPT ![w] = "acquire"]
        /\ UNCHANGED <<queue, batch, result, processed_events, events, stats,
                       pushed, results, raised, poolVars, loopVars, apiVars, envVars, mainVars>>

\* async with self.pool.acquire() as conn, conn.transaction(): the call waits
\* until the pool can hand out a connection.
AcquireConn(w) ==
    /\ pc[w] = "acquire"
    /\ CanAcquire(pool)
    /\ pool' = Lease(pool)
    /\ pc' = [pc EXCEPT ![w] = "dedup"]
    /\ UNCHANGED <<queue, batch, cur, result, txn, processed_events, events,
                   stats, pushed, results, raised, restarts, loopVars, apiVars, envVars, mainVars>>

\* pool.acquire() on a closed pool raises InterfaceError: the call raises
\* before any statement ran.
AcquireClosed(w) ==
    /\ pc[w] = "acquire"
    /\ ~pool.open
    /\ raised' = Append(raised, FALSE)
    /\ cur' = [cur EXCEPT ![w] = <<>>]
    /\ pc' = [pc EXCEPT ![w] = AfterCall(w, "backoff")]
    /\ UNCHANGED <<queue, batch, result, txn, processed_events, events, stats,
                   pushed, results, poolVars, loopVars, apiVars, envVars, mainVars>>

\* Database.disconnect: await self.pool.close(), which returns once every
\* leased connection has been released.
disconnect ==
    /\ pool.open
    /\ pool.leased = 0
    /\ pool' = ClosedPool(pool)
    /\ UNCHANGED <<queue, batch, pc, cur, result, txn, processed_events,
                   events, stats, pushed, results, raised, restarts, loopVars,
                   apiVars, envVars, mainVars>>

\* Faulty variant: the reconnect finds an empty database (the tables did not
\* outlive the connections).
connect_fresh ==
    /\ ~pool.open
    /\ Len(restarts) < MaxRestarts
    /\ pool' = OpenPool(pool.max_size)
    /\ restarts' = Append(restarts, Len(results))
    /\ processed_events' = <<>>
    /\ events' = <<>>
    /\ stats' = ZeroStats
    /\ UNCHANGED <<queue, batch, pc, cur, result, txn, pushed, results, raised,
                   loopVars, apiVars, envVars, mainVars>>

\* Database.connect after a disconnect: a new pool on the same database.
connect ==
    /\ ~pool.open
    /\ Len(restarts) < MaxRestarts
    /\ pool' = OpenPool(pool.max_size)
    /\ restarts' = Append(restarts, Len(results))
    /\ UNCHANGED <<queue, batch, pc, cur, result, txn, processed_events,
                   events, stats, pushed, results, raised, loopVars, apiVars, envVars, mainVars>>

\* ---- end of a worker -----------------------------------------------------------
\* The coroutine of worker w has ended.
Done(w) == pc[w] \in {"exited", "cancelled"}

\* Faulty variant: a worker cancelled inside its transaction keeps its
\* connection.
Cancel_leak(w) ==
    /\ caller[w] = "start"
    /\ ~Done(w)
    /\ txn' = [txn EXCEPT ![w] = Rollback(@)]
    /\ cur' = [cur EXCEPT ![w] = <<>>]
    /\ result' = [result EXCEPT ![w] = ""]
    /\ pc' = [pc EXCEPT ![w] = "cancelled"]
    /\ UNCHANGED <<queue, batch, processed_events, events, stats, pushed,
                   results, raised, poolVars, loopVars, apiVars, envVars, mainVars>>

\* Faulty variant: the cancelled transaction leaves its dedup row behind.
Cancel_partial(w) ==
    /\ caller[w] = "start"
    /\ ~Done(w)
    /\ processed_events' = CommitRows(processed_events, txn[w].dedup)
    /\ txn' = [txn EXCEPT ![w] = Rollback(@)]
    /\ cur' = [cur EXCEPT ![w] = <<>>]
    /\ result' = [result EXCEPT ![w] = ""]
    /\ pool' = IF InTransaction(w) THEN Release(pool) ELSE pool
    /\ pc' = [pc EXCEPT ![w] = "cancelled"]
    /\ UNCHANGED <<queue, batch, events, stats, pushed,
                   results, raised, restarts, loopVars, apiVars, envVars, mainVars>>

\* consumer_task.cancel(): CancelledError is raised at the await the worker is
\* suspended at (blpop, a statement of the transaction, or the back-off
\* sleep).  It is not an Exception, so no except clause of the loop catches
\* it; an open transaction block rolls back and releases its connection.
Cancel(w) ==
    /\ caller[w] = "start"
    /\ ~Done(w)
    /\ txn' = [txn EXCEPT ![w] = Rollback(@)]
    /\ cur' = [cur EXCEPT ![w] = <<>>]
    /\ result' = [result EXCEPT ![w] = ""]
    /\ pool' = IF InTransaction(w) THEN Release(pool) ELSE pool
    /\ pc' = [pc EXCEPT ![w] = "cancelled"]
    /\ UNCHANGED <<queue, batch, processed_events, events, stats, pushed,
                   results, raised, restarts, loopVars, apiVars, envVars, mainVars>>

\* Consumer.stop, called by the finally block of start_consumers once
\* asyncio.gather has ended.
stop(w) ==
    /\ \A w2 \in DOMAIN pc : Done(w2)
    /\ running[w]
    /\ running' = [running EXCEPT ![w] = FALSE]
    /\ UNCHANGED <<queue, batch, pc, cur, result, txn, processed_events,
                   events, stats, pushed, results, raised, poolVars, caller, redis,
                   popped, junk, apiVars, envVars, mainVars>>

\* ---- lifecycle supervisor (lifespan, start_consumers) ------------------------
\* Startup: db = Database(DATABASE_URL); await db.connect().
lifespan_connect ==
    /\ lifespan = "starting"
    /\ db' = "Database"
    /\ pool' = OpenPool(max_size)
    /\ lifespan' = "db_connected"
    /\ UNCHANGED <<queue, batch, pc, cur, result, txn, processed_events,
                   events, stats, pushed, results, raised, restarts,
                   loopVars, apiVars, envVars, redis_client, consumer_task>>

\* create_pool raises (the store is unreachable): lifespan raises and the
\* application does not start.
lifespan_connect_fails ==
    /\ lifespan = "starting"
    /\ db' = "Database"
    /\ lifespan' = "failed"
    /\ UNCHANGED <<queue, batch, pc, cur, result, txn, processed_events,
                   events, stats, pushed, results, raised, poolVars,
                   loopVars, apiVars, envVars, redis_client, consumer_task>>

\* redis_client = await aioredis.from_url(REDIS_URL, ...).
lifespan_from_url ==
    /\ lifespan = "db_connected"
    /\ redis_client' = "open"
    /\ lifespan' = "redis_connected"
    /\ UNCHANGED <<queue, batch, pc, cur, result, txn, processed_events,
                   events, stats, pushed, results, raised, poolVars,
                   loopVars, apiVars, envVars, db, consumer_task>>

\* Faulty variant: the worker pool is handed to the event loop first, before
\* the store pool is connected.
lifespan_create_task_first ==
    /\ lifespan = "starting"
    /\ consumer_task' = "scheduled"
    /\ lifespan' = "spawned"
    /\ UNCHANGED <<queue, batch, pc, cur, result, txn, processed_events,
                   events, stats, pushed, results, raised, poolVars,
                   loopVars, apiVars, envVars, db, redis_client>>

\* consumer_task = asyncio.create_task(start_consumers(REDIS_URL, db,
\* NUM_WORKERS)): the coroutine is scheduled, it has not run yet.
lifespan_create_task ==
    /\ lifespan = "redis_connected"
    /\ consumer_task' = "scheduled"
    /\ lifespan' = "spawned"
    /\ UNCHANGED <<queue, batch, pc, cur, result, txn, processed_events,
                   events, stats, pushed, results, raised, poolVars,
                   loopVars, apiVars, envVars, db, redis_client>>

\* yield: startup is complete and the server accepts requests.
lifespan_yield ==
    /\ lifespan = "spawned"
    /\ lifespan' = "ready"
    /\ UNCHANGED <<queue, batch, pc, cur, result, txn, processed_events,
                   events, stats, pushed, results, raised, poolVars,
                   loopVars, apiVars, envVars, db, redis_client, consumer_task>>

\* The event loop runs start_consumers only once lifespan is suspended.
LoopRuns == lifespan \in {"ready", "awaiting"}

\* start_consumers, one round of its for loop: consumer = Consumer(redis_url,
\* database, i); await consumer.connect(); consumers.append(consumer).
create_consumer(w) ==
    /\ LoopRuns
    /\ consumer_task \in {"scheduled", "creating"}
    /\ pc[w] = "unborn"
    /\ \A w2 \in DOMAIN pc : w2 < w => pc[w2] # "unborn"
    /\ pc' = [pc EXCEPT ![w] = "connected"]
    /\ redis' = [redis EXCEPT ![w] = "open"]
    /\ consumer_task' = "creating"
    /\ UNCHANGED <<queue, batch, cur, result, txn, processed_events,
                   events, stats, pushed, results, raised, poolVars,
                   caller, running, popped, junk, apiVars, envVars,
                   lifespan, db, redis_client>>

\* await consumer.connect() raises: the exception leaves start_consumers
\* from inside its for loop, which no try statement encloses, and the task
\* ends with it.
create_consumer_fails(w) ==
    /\ LoopRuns
    /\ consumer_task \in {"scheduled", "creating"}
    /\ pc[w] = "unborn"
    /\ \A w2 \in DOMAIN pc : w2 < w => pc[w2] # "unborn"
    /\ consumer_task' = "failed"
    /\ UNCHANGED <<queue, batch, pc, cur, result, txn, processed_events,
                   events, stats, pushed, results, raised, poolVars,
                   loopVars, apiVars, envVars, lifespan, db, redis_client>>

\* await asyncio.gather(*[consumer.start() for consumer in consumers]): a
\* task per worker is created.
gather ==
    /\ LoopRuns
    /\ consumer_task \in {"scheduled", "creating"}
    /\ \A w \in DOMAIN pc : pc[w] = "connected"
    /\ consumer_task' = "gather"
    /\ UNCHANGED <<queue, batch, pc, cur, result, txn, processed_events,
                   events, stats, pushed, results, raised, poolVars,
                   loopVars, apiVars, envVars, lifespan, db, redis_client>>

\* Consumer.start up to its first blpop: self.running = True.
start(w) ==
    /\ consumer_task = "gather"
    /\ pc[w] = "connected"
    /\ running' = [running EXCEPT ![w] = TRUE]
    /\ pc' = [pc EXCEPT ![w] = "blpop"]
    /\ UNCHANGED <<queue, batch, cur, result, txn, processed_events,
                   events, stats, pushed, results, raised, poolVars,
                   caller, redis, popped, junk, apiVars, envVars, mainVars>>

\* Shutdown: consumer_task.cancel().  A task that has not reached gather ends
\* at once; one that awaits gather passes the cancellation on to its workers;
\* one that has ended with an exception keeps it.
lifespan_cancel ==
    /\ lifespan = "ready"
    /\ lifespan' = "awaiting"
    /\ consumer_task' = CASE consumer_task = "gather" -> "cancelling"
                          [] consumer_task = "failed" -> "failed"
                          [] OTHER -> "done"
    /\ UNCHANGED <<queue, batch, pc, cur, result, txn, processed_events,
                   events, stats, pushed, results, raised, poolVars,
                   loopVars, apiVars, envVars, db, redis_client>>

\* finally of start_consumers: its for loop has reached consumer w when
\* the consumers before it have been disconnected.
Reached(w) == \A w2 \in DOMAIN pc : w2 < w => redis[w2] = "closed"

\* await consumer.disconnect() in the finally of start_consumers, after
\* consumer.stop(): self.redis.close().
Consumer_disconnect(w) ==
    /\ consumer_task = "cancelling"
    /\ \A w2 \in DOMAIN pc : Done(w2)
    /\ Reached(w)
    /\ ~running[w]
    /\ redis[w] = "open"
    /\ redis' = [redis EXCEPT ![w] = "closed"]
    /\ UNCHANGED <<queue, batch, pc, cur, result, txn, processed_events,
                   events, stats, pushed, results, raised, poolVars,
                   caller, running, popped, junk, apiVars, envVars,
                   mainVars>>

\* self.redis.close() raises: the exception leaves the for loop of the
\* finally block and start_consumers, and the task ends with it.
Consumer_disconnect_raises(w) ==
    /\ consumer_task = "cancelling"
    /\ \A w2 \in DOMAIN pc : Done(w2)
    /\ Reached(w)
    /\ ~running[w]
    /\ redis[w] = "open"
    /\ consumer_task' = "failed"
    /\ UNCHANGED <<queue, batch, pc, cur, result, txn, processed_events,
                   events, stats, pushed, results, raised, poolVars,
                   loopVars, apiVars, envVars, lifespan, db, redis_client>>

\* finally of start_consumers, after consumer.stop() and
\* consumer.disconnect() of every consumer: the task has ended.
start_consumers_return ==
    /\ consumer_task = "cancelling"
    /\ \A w \in DOMAIN pc : Done(w) /\ ~running[w] /\ redis[w] = "closed"
    /\ consumer_task' = "done"
    /\ UNCHANGED <<queue, batch, pc, cur, result, txn, processed_events,
                   events, stats, pushed, results, raised, poolVars,
                   loopVars, apiVars, envVars, lifespan, db, redis_client>>

\* await consumer_task returns (CancelledError is passed over).
lifespan_awaited ==
    /\ lifespan = "awaiting"
    /\ consumer_task = "done"
    /\ lifespan' = "awaited"
    /\ UNCHANGED <<queue, batch, pc, cur, result, txn, processed_events,
                   events, stats, pushed, results, raised, poolVars,
                   loopVars, apiVars, envVars, db, redis_client, consumer_task>>

\* await consumer_task raises what the task has ended with: an exception
\* other than CancelledError leaves lifespan, and the statements after the
\* try do not run.
lifespan_await_raises ==
    /\ lifespan = "awaiting"
    /\ consumer_task = "failed"
    /\ lifespan' = "raised"
    /\ UNCHANGED <<queue, batch, pc, cur, result, txn, processed_events,
                   events, stats, pushed, results, raised, poolVars,
                   loopVars, apiVars, envVars, db, redis_client, consumer_task>>

\* await redis_client.close().
lifespan_redis_close ==
    /\ lifespan = "awaited"
    /\ redis_client' = "closed"
    /\ lifespan' = "redis_closed"
    /\ UNCHANGED <<queue, batch, pc, cur, result, txn, processed_events,
                   events, stats, pushed, results, raised, poolVars,
                   loopVars, apiVars, envVars, db, consumer_task>>

\* Faulty variant: the store pool is closed as soon as the cancellation has
\* been sent, without awaiting the workers.
lifespan_disconnect_early ==
    /\ lifespan \in {"awaiting", "redis_closed"}
    /\ pool.open
    /\ pool' = ClosedPool(pool)
    /\ lifespan' = "stopped"
    /\ UNCHANGED <<queue, batch, pc, cur, result, txn, processed_events,
                   events, stats, pushed, results, raised, restarts,
                   loopVars, apiVars, envVars, db, redis_client, consumer_task>>

\* await db.disconnect(): pool.close() returns once every connection has
\* been released.
lifespan_disconnect ==
    /\ lifespan = "redis_closed"
    /\ pool.leased = 0
    /\ pool' = ClosedPool(pool)
    /\ lifespan' = "stopped"
    /\ UNCHANGED <<queue, batch, pc, cur, result, txn, processed_events,
                   events, stats, pushed, results, raised, restarts,
                   loopVars, apiVars, envVars, db, redis_client, consumer_task>>

\* ---- specifications ---------------------------------------------------------
\* The statements of one transaction of process_event_idempotent.
TxnStep(w) ==
    \/ DedupInsert(w)
    \/ DedupWake(w)
    \/ DuplicatePath(w)
    \/ InsertEvent(w)
    \/ UpdateStats(w)
    \/ Commit(w)

WorkerStep(w) ==
    \/ PopTimeout(w)
    \/ Pop(w)
    \/ DedupInsert(w)
    \/ DedupWake(w)
    \/ DuplicatePath(w)
    \/ InsertEvent(w)
    \/ UpdateStats(w)
    \/ Commit(w)

\* The pipeline: publishers and workers.  blpop serves one of the clients
\* blocked on the list; the workers blocked there hold nothing and differ by
\* their worker_id only, so the one with the smallest worker_id is taken as
\* the one served.
Next ==
    \/ publish_event
    \/ publish_batch
    \/ publish_batch_push
    \/ \E w \in Workers :
          /\ pc[w] = "blpop" => \A w2 \in DOMAIN pc : w2 < w => pc[w2] # "blpop"
          /\ WorkerStep(w)
    \/ \E w \in Workers : StoreError(w)
    \/ \E w \in Workers : Backoff(w)

Spec == Init /\ [][Next]_vars

\* The same pipeline under two more names: the invariants on the counters are
\* model-checked under Spec, those on the return values of the calls under
\* ReturnSpec and those on the key under KeySpec, a few invariants per TLC run.
ReturnSpec == Init /\ [][Next]_vars

KeySpec == Init /\ [][Next]_vars

\* The pipeline with the pops of the workers recorded, its clients sending
\* events with distinct event_ids and bodies of every size up to MaxBatch.
QueueInit ==
    /\ InitData
    /\ Serving
    /\ InitTasks(Workers, "blpop", "start")
    /\ pool = OpenPool(max_size)
    /\ trace = {"pops"}
    /\ offered = "api"

QueueSpec == QueueInit /\ [][Next]_vars

\* The pipeline together with the read endpoints of the API.
ServiceNext ==
    \/ Next
    \/ get_events
    \/ get_stats_row
    \/ get_stats
    \/ health_check

\* The service after startup, its clients sending events with distinct
\* event_ids and bodies of every size up to MaxBatch, the empty one included.
ServiceInit ==
    /\ InitData
    /\ Serving
    /\ InitTasks(Workers, "blpop", "start")
    /\ pool = OpenPool(max_size)
    /\ trace = {}
    /\ offered = "api"

ServiceSpec == ServiceInit /\ [][ServiceNext]_vars

\* No store or broker errors, workers and the batch handler keep running.
NextLive ==
    \/ publish_event
    \/ publish_batch
    \/ publish_batch_push
    \/ \E w \in Workers : WorkerStep(w)

LiveSpec ==
    /\ Init
    /\ [][NextLive]_vars
    /\ WF_vars(publish_batch_push)
    /\ \A w \in Workers : WF_vars(WorkerStep(w))

\* Test coroutines call process_event_idempotent directly on a pool that is
\* closed and reopened in between (test_persistence).
RestartInit ==
    /\ InitData
    /\ Serving
    /\ InitTasks(Workers, "idle", "test")
    /\ pool = OpenPool(max_size)
    /\ trace = {}
    /\ offered = "none"

RestartNext ==
    \/ \E w \in Workers : Call(w)
    \/ \E w \in Workers : AcquireConn(w)
    \/ \E w \in Workers : AcquireClosed(w)
    \/ \E w \in Workers : TxnStep(w)
    \/ disconnect
    \/ connect

RestartSpec == RestartInit /\ [][RestartNext]_vars

\* More concurrent direct calls than the pool has connections, on shared and
\* distinct keys (test_no_deadlocks_with_many_concurrent_transactions; the
\* pool of the test is scaled down to PoolSize).
CallInit ==
    /\ InitData
    /\ Serving
    /\ InitTasks(Tasks, "idle", "test")
    /\ pool = OpenPool(PoolSize)
    /\ trace = {}
    /\ offered = "none"

\* What a started call does next.
CallStep(w) == AcquireConn(w) \/ TxnStep(w)

CallNext ==
    \/ \E w \in Tasks : Call(w)
    \/ \E w \in Tasks : CallStep(w)

\* The event loop keeps running every coroutine that can go on.
CallSpec ==
    /\ CallInit
    /\ [][CallNext]_vars
    /\ \A w \in Tasks : WF_vars(CallStep(w))

\* The ingestion API in front of a Redis server that may fail at any time,
\* with the HTTP responses recorded; the consumers are not scheduled.
ApiInit ==
    /\ InitData
    /\ Serving
    /\ InitTasks(Workers, "blpop", "start")
    /\ pool = OpenPool(max_size)
    /\ trace = {"responses"}
    /\ offered = "api"

ApiNext ==
    \/ publish_event
    \/ publish_batch
    \/ publish_batch_push
    \/ redis_down
    \/ redis_back

ApiSpec == ApiInit /\ [][ApiNext]_vars

\* POST /publish/batch with bodies at the limits of EventBatch, responses
\* recorded, the broker up and the consumers not scheduled.
BatchSizeInit ==
    /\ InitData
    /\ Serving
    /\ InitTasks(Workers, "blpop", "start")
    /\ pool = OpenPool(max_size)
    /\ trace = {"responses"}
    /\ offered = "limits"

BatchSizeNext ==
    \/ publish_batch
    \/ publish_batch_push

BatchSizeSpec == BatchSizeInit /\ [][BatchSizeNext]_vars

\* The pipeline fed with events and with messages that are not events; no
\* store or broker failures, and the event loop keeps running every worker.
PoisonInit ==
    /\ InitData
    /\ Serving
    /\ InitTasks(Workers, "blpop", "start")
    /\ pool = OpenPool(max_size)
    /\ trace = {"pops"}
    /\ offered = "poison"

LoopStep(w) == WorkerStep(w) \/ Backoff(w)

PoisonNext ==
    \/ publish_event
    \/ push_raw
    \/ \E w \in Workers : LoopStep(w)

PoisonSpec ==
    /\ PoisonInit
    /\ [][PoisonNext]_vars
    /\ \A w \in Workers : WF_vars(LoopStep(w))

\* The workers under every kind of failure: messages that are not events, a
\* store that raises, a Redis server that stops answering, and cancellation
\* by the supervisor.
FaultInit ==
    /\ InitData
    /\ Serving
    /\ InitTasks(Workers, "blpop", "start")
    /\ pool = OpenPool(max_size)
    /\ trace = {"pops"}
    /\ offered = "faults"

FaultNext ==
    \/ publish_event
    \/ push_raw
    \/ redis_down
    \/ redis_back
    \/ \E w \in Workers : LoopStep(w)
    \/ \E w \in Workers : StoreError(w)
    \/ \E w \in Workers : BrokerError(w)
    \/ \E w \in Workers : Cancel(w)
    \/ \E w \in Workers : stop(w)

FaultSpec == FaultInit /\ [][FaultNext]_vars

\* The service after startup with clients that query the stored events
\* while events of two topics come in; the responses are recorded.
QueryInit ==
    /\ InitData
    /\ Serving
    /\ InitTasks(Workers, "blpop", "start")
    /\ pool = OpenPool(max_size)
    /\ trace = {"responses"}
    /\ offered = "query"

QueryNext ==
    \/ publish_event
    \/ \E w \in Workers : WorkerStep(w)
    \/ get_events

QuerySpec == QueryInit /\ [][QueryNext]_vars

\* The service after startup with clients that post the bodies of RawBodies;
\* requests and responses are recorded.
CodecInit ==
    /\ InitData
    /\ Serving
    /\ InitTasks(Workers, "blpop", "start")
    /\ pool = OpenPool(max_size)
    /\ trace = {"responses"}
    /\ offered = "bodies"

CodecNext ==
    \/ post_publish
    \/ \E w \in Workers : WorkerStep(w)

CodecSpec == CodecInit /\ [][CodecNext]_vars

\* Every operation of the service from its ready state to the end of its
\* shutdown: single and batch publishes, the read endpoints, the workers
\* with failing commits, and the shutdown sequence.
CoreInit ==
    /\ InitData
    /\ Serving
    /\ InitTasks(Workers, "blpop", "start")
    /\ pool = OpenPool(max_size)
    /\ trace = {}
    /\ offered = "api"

CoreNext ==
    \/ lifespan = "ready" /\ publish_event
    \/ lifespan = "ready" /\ publish_batch
    \/ lifespan = "ready" /\ publish_batch_push
    \/ lifespan = "ready" /\ get_events
    \/ lifespan = "ready" /\ get_stats_row
    \/ lifespan = "ready" /\ get_stats
    \/ lifespan = "ready" /\ health_check
    \/ \E w \in Workers : consumer_task = "gather" /\ LoopStep(w)
    \/ \E w \in Workers : consumer_task = "gather" /\ StoreError(w)
    \/ lifespan_cancel
    \/ \E w \in Workers : consumer_task = "cancelling" /\ Cancel(w)
    \/ \E w \in Workers : consumer_task = "cancelling" /\ Reached(w) /\ stop(w)
    \/ \E w \in Workers : Consumer_disconnect(w)
    \/ start_consumers_return
    \/ lifespan_awaited
    \/ lifespan_redis_close
    \/ lifespan_disconnect

CoreSpec == CoreInit /\ [][CoreNext]_vars

\* The process from its start to the end of its shutdown: nothing is
\* connected, no Consumer exists, start_consumers has not been scheduled.
LifeInit ==
    /\ InitData
    /\ pc = [w \in Workers |-> "unborn"]
    /\ cur = [w \in Workers |-> <<>>]
    /\ result = [w \in Workers |-> ""]
    /\ txn = [w \in Workers |-> NoTxn]
    /\ caller = [w \in Workers |-> "start"]
    /\ running = [w \in Workers |-> FALSE]
    /\ redis = [w \in Workers |-> "None"]
    /\ pool = ClosedPool(OpenPool(max_size))
    /\ lifespan = "starting"
    /\ db = "None"
    /\ redis_client = "None"
    /\ consumer_task = "None"
    /\ trace = {"responses"}
    /\ offered = "life"

\* Requests are served between the yield of lifespan and its shutdown; the
\* workers run while start_consumers awaits gather, and once it has been
\* cancelled each of them is resumed with CancelledError.
LifeNext ==
    \/ lifespan_connect
    \/ lifespan_connect_fails
    \/ lifespan_from_url
    \/ lifespan_create_task
    \/ lifespan_yield
    \/ \E w \in Workers : create_consumer(w)
    \/ gather
    \/ \E w \in Workers : start(w)
    \/ lifespan = "ready" /\ publish_event
    \/ health_check
    \/ \E w \in Workers : consumer_task = "gather" /\ LoopStep(w)
    \/ \E w \in Workers : consumer_task = "gather" /\ StoreError(w)
    \/ lifespan_cancel
    \/ \E w \in Workers : consumer_task = "cancelling" /\ Cancel(w)
    \/ \E w \in Workers : consumer_task = "cancelling" /\ Reached(w) /\ stop(w)
    \/ \E w \in Workers : Consumer_disconnect(w)
    \/ start_consumers_return
    \/ lifespan_awaited
    \/ lifespan_redis_close
    \/ lifespan_disconnect

LifeSpec == LifeInit /\ [][LifeNext]_vars

\* The service after startup with clients that ask for the statistics
\* while events of two topics are committed; the responses are recorded.
StatsInit ==
    /\ InitData
    /\ Serving
    /\ InitTasks(Workers, "blpop", "start")
    /\ pool = OpenPool(max_size)
    /\ trace = {"responses"}
    /\ offered = "query"

StatsNext ==
    \/ publish_event
    \/ \E w \in Workers : WorkerStep(w)
    \/ get_stats_row
    \/ get_stats

StatsSpec == StatsInit /\ [][StatsNext]_vars

\* The service after startup run with one worker (NUM_WORKERS = 1) or with
\* NumWorkers of them, fed one key with two bodies and a second key.
OrderInit ==
    /\ InitData
    /\ Serving
    /\ \E n \in {1, NumWorkers} : InitTasks(1..n, "blpop", "start")
    /\ pool = OpenPool(max_size)
    /\ trace = {}
    /\ offered = "order"

OrderNext ==
    \/ publish_event
    \/ \E w \in DOMAIN pc : WorkerStep(w)
    \/ \E w \in DOMAIN pc : StoreError(w)
    \/ \E w \in DOMAIN pc : Backoff(w)

OrderSpec == OrderInit /\ [][OrderNext]_vars

\* The same process with a broker that can refuse a consumer: connecting a
\* consumer or closing its connection can raise.
CleanupNext ==
    \/ LifeNext
    \/ \E w \in Workers : create_consumer_fails(w)
    \/ \E w \in Workers : Consumer_disconnect_raises(w)
    \/ lifespan_await_raises

CleanupSpec == LifeInit /\ [][CleanupNext]_vars

TypeOK ==
    /\ \A w \in Workers : Len(cur[w]) <= 1 /\ Len(txn[w].dedup) <= 1
    /\ Len(pushed) <= MaxPublished

\* ---- vocabulary of the properties --------------------------------------------
\* The deduplication key of an event: the pair (topic, event_id).
DedupKey(e) == <<e.topic, e.event_id>>
Keys == { DedupKey(e) : e \in ValidEvents }

\* Indices of the returned calls, committed rows and messages of key k.
Calls(k) == { i \in 1..Len(results) : DedupKey(results[i].event) = k }
NewCalls(k) == { i \in Calls(k) : results[i].is_new }
DupCalls(k) == { i \in Calls(k) : ~results[i].is_new }
EventRows(k) == { i \in 1..Len(events) : <<events[i].topic, events[i].event_id>> = k }
DedupRows(k) == { i \in 1..Len(processed_events) : processed_events[i] = k }
PushedOf(k) == { i \in 1..Len(pushed) : DedupKey(pushed[i]) = k }
QueuedOf(k) == { i \in 1..Len(queue) : <<queue[i][2], queue[i][3]>> = k }
HeldOf(k) == { w \in Workers : cur[w] # <<>> /\ DedupKey(cur[w][1]) = k }

CommittedKeys == { k \in Keys : Calls(k) # {} }
PushedKeys == { k \in Keys : PushedOf(k) # {} }
NewReturns == { i \in 1..Len(results) : results[i].is_new }
DupReturns == { i \in 1..Len(results) : ~results[i].is_new }

\* Queue empty, no batch running, no message held by a worker.
Drained ==
    /\ queue = <<>>
    /\ batch = <<>>
    /\ \A w \in Workers : cur[w] = <<>>

\* ---- C1 ---------------------------------------------------------------------
\* C1: idempotence law.  Of the calls made for one key, in the order in which
\* they return, the first returns True and every later one returns False; a
\* key called k >= 1 times has exactly one events row and one
\* processed_events row, and adds 1 to unique_processed_count, k-1 to
\* duplicate_dropped_count and k to received_count.
IdempotenceLaw ==
    /\ \A i \in 1..Len(results) :
          results[i].is_new =
             (\A j \in 1..(i-1) :
                 DedupKey(results[j].event) # DedupKey(results[i].event))
    /\ \A k \in CommittedKeys :
          /\ Cardinality(EventRows(k)) = 1
          /\ Cardinality(DedupRows(k)) = 1
    /\ stats.unique_processed_count = Cardinality(CommittedKeys)
    /\ stats.duplicate_dropped_count = Len(results) - Cardinality(CommittedKeys)
    /\ stats.received_count = Len(results)

\* One key committed three times, one call after the other.
IdempotenceLawWitness ==
    /\ Len(results) = 3
    /\ \A i \in 1..3 :
          /\ DedupKey(results[i].event) = DedupKey(results[1].event)
          /\ ~results[i].waited
    /\ stats.duplicate_dropped_count = 2
    /\ Len(events) = 1

\* ---- C2 ---------------------------------------------------------------------
\* C2: concurrent duplicate resolution.  Of the calls for one key that commit,
\* exactly one returns True and all the others return False, events holds one
\* row for the key, and while no store failure occurs no call raises: every
\* message taken from the queue is held by a worker or has returned.
ConcurrentDuplicateResolution ==
    /\ \A k \in CommittedKeys :
          /\ Cardinality(NewCalls(k)) = 1
          /\ Cardinality(DupCalls(k)) = Cardinality(Calls(k)) - 1
          /\ Cardinality(EventRows(k)) = 1
    /\ raised = <<>> =>
          \A k \in Keys :
             Cardinality(PushedOf(k)) =
                Cardinality(QueuedOf(k)) + Cardinality(HeldOf(k))
                   + Cardinality(Calls(k))

\* Two transactions raced on one key: the loser waited for the winner's
\* uncommitted dedup row and then returned False.
ConcurrentDuplicateResolutionWitness ==
    /\ raised = <<>>
    /\ \E i, j \in 1..Len(results) :
          /\ DedupKey(results[i].event) = DedupKey(results[j].event)
          /\ results[i].is_new
          /\ results[j].waited /\ ~results[j].is_new

\* ---- C3 ---------------------------------------------------------------------
\* C3: invariant I3 and no lost counter update: in every committed state
\* received_count = unique_processed_count + duplicate_dropped_count, and
\* received_count is the number of calls that committed.
StatsConsistency ==
    /\ stats.received_count =
          stats.unique_processed_count + stats.duplicate_dropped_count
    /\ stats.received_count = Len(results)

\* A new commit, a duplicate commit and an aborted transaction have happened.
StatsConsistencyWitness ==
    /\ raised # <<>>
    /\ NewReturns # {}
    /\ DupReturns # {}

\* ---- C4 ---------------------------------------------------------------------
\* C4: invariants I1 and I2: unique_processed_count = |events| and
\* unique_processed_count = |processed_events| in every committed state.
I1I2 ==
    /\ stats.unique_processed_count = Len(events)
    /\ stats.unique_processed_count = Len(processed_events)

\* Two keys stored and a duplicate dropped.
I1I2Witness ==
    /\ Len(events) = 2
    /\ DupReturns # {}

\* ---- C5 ---------------------------------------------------------------------
\* C5: invariant I4: the keys of processed_events are exactly the keys of the
\* events rows, also after a transaction failed between its statements.
I4 ==
    { processed_events[i] : i \in 1..Len(processed_events) }
       = { <<events[i].topic, events[i].event_id>> : i \in 1..Len(events) }

\* A transaction failed after its dedup insert and before its commit.
I4Witness ==
    \E i \in 1..Len(raised) :
       raised[i]

\* ---- C6 ---------------------------------------------------------------------
\* C6: invariant I5: at most one processed_events row and at most one events
\* row per (topic, event_id).
I5 ==
    \A k \in Keys :
       /\ Cardinality(DedupRows(k)) <= 1
       /\ Cardinality(EventRows(k)) <= 1

\* One key delivered three times, one of the deliveries concurrent with
\* another.
I5Witness ==
    \E k \in Keys :
       /\ Cardinality(Calls(k)) = 3
       /\ \E i \in Calls(k) : results[i].waited

\* ---- C7 ---------------------------------------------------------------------
\* C7: mixed load.  Once every message pushed has been committed without a
\* store failure, with U distinct keys and D further copies pushed: U calls
\* returned True, D returned False, |events| = U and the counters are
\* U, D and U + D.
MixedLoad ==
    (Drained /\ raised = <<>>) =>
        LET U == Cardinality(PushedKeys)
            D == Len(pushed) - Cardinality(PushedKeys)
        IN /\ Cardinality(NewReturns) = U
           /\ Cardinality(DupReturns) = D
           /\ Len(events) = U
           /\ stats.unique_processed_count = U
           /\ stats.duplicate_dropped_count = D
           /\ stats.received_count = U + D

\* Two distinct keys and one copy, committed with a race on the copy.
MixedLoadWitness ==
    /\ Drained /\ raised = <<>>
    /\ Cardinality(PushedKeys) = 2
    /\ Len(pushed) = 3
    /\ \E i \in 1..Len(results) : results[i].waited

\* ---- C8 ---------------------------------------------------------------------
\* What an exactly-once store holds for the messages pushed so far.
ExactlyOnceEffect ==
    /\ \A k \in Keys :
          Cardinality(EventRows(k)) = IF k \in PushedKeys THEN 1 ELSE 0
    /\ stats.received_count = Len(pushed)
    /\ stats.unique_processed_count = Cardinality(PushedKeys)
    /\ stats.duplicate_dropped_count = Len(pushed) - Cardinality(PushedKeys)

\* C8: end-to-end exactly-once effect.  With the workers running and no
\* store or broker failure, the system eventually drains for good, and from
\* then on events holds one row per distinct key published and the counters
\* are the number of messages, the number of distinct keys and their
\* difference.
ExactlyOnceDrain == <>[](Drained /\ ExactlyOnceEffect)

\* Three messages on two keys were published and the system has drained.
ExactlyOnceDrainWitness ==
    /\ Drained
    /\ Len(pushed) = 3
    /\ Cardinality(PushedKeys) = 2
    /\ Len(results) = 3

\* ---- C9 ---------------------------------------------------------------------
\* C9: the key is (topic, event_id).  Two keys with the same event_id and
\* different topics, once both committed, each have one call that returned
\* True, and events holds two rows for them.
CrossTopicDistinct ==
    \A k1, k2 \in CommittedKeys :
       (k1[1] # k2[1] /\ k1[2] = k2[2]) =>
          /\ Cardinality(NewCalls(k1)) = 1
          /\ Cardinality(NewCalls(k2)) = 1
          /\ Cardinality(EventRows(k1) \cup EventRows(k2)) = 2

\* topic.b committed before topic.a with the same event_id, both new.
CrossTopicDistinctWitness ==
    /\ Len(results) >= 2
    /\ results[1].event.topic = "topic.b" /\ results[1].is_new
    /\ results[2].event.topic = "topic.a" /\ results[2].is_new
    /\ results[1].event.event_id = results[2].event.event_id
    /\ Len(events) = 2

\* ---- C10 --------------------------------------------------------------------
\* The first call that returned for key k.
FirstCall(k) == CHOOSE i \in Calls(k) : \A j \in Calls(k) : i <= j

\* C10: payload non-influence and first writer wins.  For every committed
\* key the first returned call is the only one that returned True, whatever
\* the bodies of the later ones, and the events row of the key always carries
\* the payload, source and timestamp of that first call; the processed_events
\* row stays.
FirstWriterWins ==
    \A k \in CommittedKeys :
       LET e == results[FirstCall(k)].event IN
       /\ \A i \in Calls(k) : results[i].is_new = (i = FirstCall(k))
       /\ EventRows(k) # {}
       /\ DedupRows(k) # {}
       /\ \A r \in EventRows(k) :
             /\ json_loads(events[r].payload) = e.payload
             /\ events[r].source = e.source
             /\ events[r].timestamp = isoformat(e.timestamp)

\* A commit with another payload, source and timestamp than the stored row
\* returned False.
FirstWriterWinsWitness ==
    \E i \in DupReturns : \E r \in EventRows(DedupKey(results[i].event)) :
       /\ json_loads(events[r].payload) # results[i].event.payload
       /\ events[r].source # results[i].event.source

\* ---- C11 --------------------------------------------------------------------
\* Keys of the calls that had returned when the pool was reconnected the
\* n-th time.
KeysBefore(n) == { DedupKey(results[i].event) : i \in 1..restarts[n] }

\* C11: persistence across restart.  Closing and reopening the pool changes
\* nothing in events, processed_events or stats; a key committed before the
\* close is reported duplicate by every call after the reopen, and its dedup
\* row and events row are still there exactly once, with counters that still
\* account for every call.
PersistenceAcrossRestart ==
    /\ [][pool'.open # pool.open => UNCHANGED storeVars]_vars
    /\ [](\A n \in 1..Len(restarts) :
            \A j \in (restarts[n] + 1)..Len(results) :
                DedupKey(results[j].event) \in KeysBefore(n)
                    => ~results[j].is_new)
    /\ [](\A k \in CommittedKeys :
            /\ Cardinality(EventRows(k)) = 1
            /\ Cardinality(DedupRows(k)) = 1)
    /\ [](/\ stats.received_count = Len(results)
          /\ stats.unique_processed_count = Cardinality(NewReturns)
          /\ stats.duplicate_dropped_count = Cardinality(DupReturns))

\* A key committed as new before a reconnect was called again after it and
\* reported duplicate.
PersistenceAcrossRestartWitness ==
    \E n \in 1..Len(restarts) :
        \E i \in 1..restarts[n] : \E j \in (restarts[n] + 1)..Len(results) :
            /\ results[i].is_new
            /\ ~results[j].is_new
            /\ DedupKey(results[j].event) = DedupKey(results[i].event)

\* ---- C12 --------------------------------------------------------------------
\* Calls that have begun and not yet returned, and those that can take a step.
Outstanding == { w \in DOMAIN pc : pc[w] # "idle" }
CanStep(w) == ENABLED CallStep(w)

\* C12: no deadlock.  Concurrently started calls, with same-key contention,
\* stats-row contention and more calls than pool connections, all eventually
\* return; in no reachable state is every outstanding call blocked.  A call
\* holds at most one connection and one dedup-key lock, and never waits for
\* the pool or for a key while it holds the stats row.
NoDeadlock ==
    /\ <>[](Outstanding = {})
    /\ [](Outstanding # {} => \E w \in Outstanding : CanStep(w))
    /\ [](\A w \in DOMAIN pc :
            /\ Len(txn[w].dedup) <= 1
            /\ pc[w] \in {"acquire", "dedup", "dedup_wait"} => txn[w].stats = <<>>)
    /\ [](pool.leased = Cardinality({ w \in DOMAIN pc : InTransaction(w) }))

\* The pool is exhausted with a call waiting for a connection while one of
\* the connected calls waits for the key lock of the other.
NoDeadlockWitness ==
    /\ \E w \in Outstanding : pc[w] = "acquire" /\ ~CanAcquire(pool)
    /\ \E w \in Outstanding : pc[w] = "dedup_wait"

\* ---- C13 --------------------------------------------------------------------
\* A worker leaves its transaction block by COMMIT in this step.
CommitStep ==
    \E w \in DOMAIN pc :
        /\ pc[w] \in {"return_false", "return_true"}
        /\ pc'[w] \notin {"return_false", "return_true"}
        /\ Len(results') = Len(results) + 1

\* C13: sole writer.  publish and publish_batch only validate and enqueue;
\* neither they nor the read endpoints change events, processed_events or
\* stats: a step that enqueues or starts a batch leaves the three tables as
\* they are, and the tables change only in the commit of a worker's
\* transaction, which enqueues nothing.
SoleWriter ==
    /\ [][(pushed' # pushed \/ batch' # batch \/ Len(queue') > Len(queue))
            => UNCHANGED storeVars]_vars
    /\ [][storeVars' # storeVars
            => CommitStep /\ UNCHANGED <<queue, pushed, batch>>]_vars

\* The tables hold committed rows while a batch is being enqueued behind
\* messages still waiting in the queue.
SoleWriterWitness ==
    /\ events # <<>>
    /\ stats.received_count > 0
    /\ batch # <<>>
    /\ queue # <<>>

\* ---- C14 --------------------------------------------------------------------
\* A step of the handler of POST /publish: no batch step, no change of the
\* broker, and a message enqueued or a response returned.
PublishStep ==
    /\ UNCHANGED <<batch, request, redis_up>>
    /\ pushed' # pushed \/ response' # response
    /\ response'.kind = "error" => response'.status_code = 500

ResultsAfter ==
    IF batch' # <<>> THEN batch_results'
    ELSE IF response'.kind = "batch" THEN response'.results ELSE <<>>

BatchSizeBounds ==
    /\ [](batch # <<>> => Len(request) >= 1 /\ Len(request) <= 1000)
    /\ [](response.kind = "batch" => response.total >= 1 /\ response.total <= 1000)
    /\ [][batch = <<>> /\ (batch' # batch \/ request' # request
                                           \/ response' # response) =>
            IF Len(request') >= 1 /\ Len(request') <= 1000
            THEN batch' = request' /\ response' = response
            ELSE /\ response' = HTTPException(422)
                 /\ UNCHANGED <<batch, batch_results, queue, pushed>>]_vars

\* A body was rejected, and the handler then runs on a body of 1000 events
\* of which it has enqueued the first.
BatchSizeBoundsWitness ==
    /\ response = HTTPException(422)
    /\ Len(request) = 1000
    /\ Len(batch) = 999
    /\ Len(queue) = 1

\* ---- C17 --------------------------------------------------------------------
\* Message m carries event e.
Carries(m, e) ==
    /\ m[2] = e.topic
    /\ m[3] = e.event_id
    /\ m[4] = <<e.timestamp, "Z">>
    /\ m[5] = e.source
    /\ m[6] = e.payload

\* C17: the broker queue is FIFO.  Pushes append at the tail and pops remove
\* the head: the messages popped so far, in pop order and whichever worker
\* popped them, followed by the queue from head to tail, are the events in
\* the order in which their pushes completed; the events of one batch are
\* pushed in the order of the batch.
QueueFIFO ==
    /\ [](LET all == popped \o queue
          IN /\ Len(all) = Len(pushed)
             /\ \A i \in 1..Len(all) : Carries(all[i], pushed[i]))
    /\ [][Len(queue') > Len(queue) =>
            /\ SubSeq(queue', 1, Len(queue)) = queue
            /\ Carries(queue'[Len(queue')], pushed'[Len(pushed')])]_vars
    /\ [][Len(queue') < Len(queue) =>
            /\ queue' = SubSeq(queue, 2, Len(queue))
            /\ popped' = Append(popped, queue[1])]_vars
    /\ [][batch # <<>> /\ batch' # batch =>
            /\ batch' = Tail(batch)
            /\ pushed' = Append(pushed, Head(batch))]_vars

\* Two different messages were popped, each by another worker, in the order
\* of their pushes, while a third message waits in the queue.
QueueFIFOWitness ==
    /\ Len(popped) = 2
    /\ popped[1] # popped[2]
    /\ queue # <<>>
    /\ \E w1, w2 \in DOMAIN cur :
          /\ w1 # w2
          /\ cur[w1] # <<>> /\ Carries(popped[1], cur[w1][1])
          /\ cur[w2] # <<>> /\ Carries(popped[2], cur[w2][1])

\* ---- C18 --------------------------------------------------------------------
\* Positions of the messages that are not events in a sequence of messages.
PoisonIn(q) == { i \in 1..Len(q) : q[i] \in PoisonMessages }

\* C18: poison messages cannot stall the pipeline.  A popped message that
\* fails to deserialize (invalid JSON, or an object that is not an Event) is
\* dropped for good: it is never put back on the queue, the pop changes no
\* table and hands no event to the store, and the worker stays in its loop;
\* every message behind it is still processed eventually.
PoisonDropped ==
    /\ [][Len(popped') > Len(popped) /\ queue[1] \in PoisonMessages =>
            /\ queue' = Tail(queue)
            /\ UNCHANGED <<storeVars, cur, txn, pool, results>>
            /\ \A w \in DOMAIN pc :
                  pc'[w] = pc[w] \/ (pc[w] = "blpop" /\ pc'[w] = "backoff")]_vars
    /\ [](Cardinality(PoisonIn(popped)) + Cardinality(PoisonIn(queue)) = junk)
    /\ [][queue' # queue =>
            IF Len(queue') < Len(queue)
            THEN /\ queue' = Tail(queue)
                 /\ popped' = Append(popped, queue[1])
                 /\ UNCHANGED <<junk, pushed>>
            ELSE /\ SubSeq(queue', 1, Len(queue)) = queue
                 /\ Len(queue') = Len(queue) + 1
                 /\ popped' = popped
                 /\ junk' + Len(pushed') = junk + Len(pushed) + 1]_vars
    /\ [](\A w \in DOMAIN pc : pc[w] # "exited")
    /\ <>[](/\ Drained
            /\ \A w \in DOMAIN pc : pc[w] = "blpop"
            /\ Len(popped) = Len(pushed) + junk
            /\ stats.received_count = Len(pushed)
            /\ Len(results) = Len(pushed))

\* Both kinds of poison message were popped and dropped, and an event that
\* sat behind them in the queue has been committed.
PoisonDroppedWitness ==
    /\ Len(popped) >= 3
    /\ \A m \in PoisonMessages : \E i \in 1..2 : popped[i] = m
    /\ popped[3] \notin PoisonMessages
    /\ stats.received_count >= 1
    /\ Len(events) >= 1

\* ---- C19 --------------------------------------------------------------------
\* Workers holding a popped event.
Holding == { w \in DOMAIN cur : cur[w] # <<>> }

\* C19: store error during commit.  When process_event_idempotent raises,
\* the transaction is rolled back: events, processed_events and the counters
\* are as before the call, so the event is not counted in received_count.
\* The worker goes to its back-off sleep holding nothing and from there back
\* to blpop; the failed event is neither retried nor put back on the queue.
StoreErrorRollback ==
    /\ [][Len(raised') > Len(raised) =>
            /\ UNCHANGED <<storeVars, queue, pushed, results, popped>>
            /\ \E w \in Holding :
                  /\ pc'[w] = "backoff"
                  /\ cur'[w] = <<>>
                  /\ txn'[w].dedup = <<>> /\ txn'[w].event = <<>>
                  /\ txn'[w].stats = <<>>
                  /\ \A w2 \in DOMAIN pc \ {w} :
                        pc'[w2] = pc[w2] /\ cur'[w2] = cur[w2]]_vars
    /\ [][\A w \in DOMAIN pc :
            pc[w] = "backoff" => pc'[w] \in {"backoff", "blpop"}]_vars
    /\ [](\A w \in DOMAIN pc : pc[w] = "backoff" => w \notin Holding)
    /\ [](/\ stats.received_count = Len(results)
          /\ Len(processed_events) = Cardinality(NewReturns)
          /\ Len(events) = Cardinality(NewReturns))
    /\ [](/\ Len(popped) + Len(queue) = Len(pushed)
          /\ Len(popped) = Len(results) + Len(raised) + Cardinality(Holding))

\* A transaction failed after it had inserted its dedup row; the pipeline
\* has drained since, every other popped event is counted and the failed one
\* is not.
StoreErrorRollbackWitness ==
    /\ Len(raised) = 1
    /\ raised[1]
    /\ Drained
    /\ \A w \in DOMAIN pc : pc[w] = "blpop"
    /\ Len(popped) >= 2
    /\ stats.received_count = Len(popped) - 1

\* ---- C20 --------------------------------------------------------------------
\* C20: a worker's loop never terminates because of an error.  After any
\* sequence of broker pop failures, parse failures and store failures the
\* worker is still running and polls the queue again after its back-off; a
\* worker's coroutine ends only because its running flag was cleared or
\* because the supervisor cancelled it.
LoopSurvivesErrors ==
    /\ [](\A w \in DOMAIN pc : pc[w] = "exited" => ~running[w])
    /\ [][\A w \in DOMAIN pc :
            pc'[w] # pc[w] /\ pc'[w] \notin {"blpop", "backoff", "dedup",
                "dedup_wait", "check", "stats_new", "return_false",
                "return_true"}
              => pc'[w] = "cancelled" \/ (pc'[w] = "exited" /\ ~running[w])]_vars
    /\ [][Len(raised') > Len(raised) \/ Len(popped') > Len(popped)
            => \A w \in DOMAIN pc : pc'[w] \in {"exited", "cancelled"}
                                      => pc[w] = pc'[w]]_vars
    /\ [][\A w \in DOMAIN pc :
            pc[w] = "backoff" /\ pc'[w] # pc[w]
              => pc'[w] = "cancelled" \/ (pc'[w] = "blpop" /\ running'[w])]_vars
    /\ [][\A w \in DOMAIN pc :
            pc[w] = "blpop" /\ ~redis_up /\ pc'[w] # pc[w]
              => pc'[w] \in {"backoff", "cancelled"}]_vars

\* The store raised for the one event popped, a message that is not JSON was
\* dropped, and blpop failed on the dead broker: both workers are in their
\* back-off sleep, neither has ended.
LoopSurvivesErrorsWitness ==
    /\ ~redis_up
    /\ Len(raised) = 1
    /\ Len(popped) = 2
    /\ \E i \in 1..2 : ~IsJson(popped[i])
    /\ \E i \in 1..2 : popped[i] \notin PoisonMessages
    /\ \A w \in DOMAIN pc : pc[w] = "backoff" /\ running[w]

\* ---- C21 -----------------------------------------------------------------
\* C21: a worker observes the cancellation of the pool only at a pop
\* boundary: every step that ends a worker as cancelled starts with the
\* worker blocked in blpop or in the back-off sleep between two pops, holding
\* no popped message and no open transaction; a worker that has popped a
\* message is not interrupted inside its commit transaction.
CooperativeCancellation ==
    [][\A w \in DOMAIN pc :
          pc'[w] = "cancelled" /\ pc[w] # "cancelled"
            => /\ pc[w] \in {"blpop", "backoff"}
               /\ cur[w] = <<>>
               /\ txn[w] = NoTxn]_vars

\* ---- C22 -----------------------------------------------------------------
\* Popped messages that no worker holds and no call returned or raised for:
\* their worker was cancelled (or crashed) while it held them.
PoppedEvents == { i \in 1..Len(popped) : IsJson(popped[i]) /\ EventValid(popped[i]) }
Dropped ==
    Cardinality(PoppedEvents) - Len(results) - Len(raised) - Cardinality(Holding)

\* C22: cancellation or crash of a worker holding a popped message.  The
\* step that ends the worker applies nothing of its transaction (tables and
\* counters as before, its uncommitted writes discarded) and does not put
\* the message back on the queue; at every moment each key has its dedup
\* row, its events row and its unique count together or not at all, and the
\* counters count exactly the returned commits; a message, once popped, is
\* never on the queue again, so a dropped one is in the store only if it
\* was sent again.
AtomicUnderCancellation ==
    /\ [][\A w \in DOMAIN pc :
            pc'[w] = "cancelled" /\ pc[w] # "cancelled"
              => /\ UNCHANGED <<storeVars, queue, pushed, results, popped>>
                 /\ cur'[w] = <<>>
                 /\ txn'[w] = NoTxn]_vars
    /\ [](\A k \in Keys :
            /\ Cardinality(DedupRows(k)) = Cardinality(NewCalls(k))
            /\ Cardinality(EventRows(k)) = Cardinality(NewCalls(k))
            /\ Cardinality(NewCalls(k)) <= 1)
    /\ [](/\ stats.received_count = Len(results)
          /\ stats.unique_processed_count = Len(events)
          /\ stats.duplicate_dropped_count = Len(results) - Len(events))
    /\ [][Len(queue') > Len(queue)
            => Len(pushed') > Len(pushed) \/ junk' > junk]_vars
    /\ [](/\ Len(popped) + Len(queue) = Len(pushed) + junk
          /\ Dropped >= 0
          /\ Dropped <= Cardinality({ w \in DOMAIN pc : pc[w] = "cancelled" }))

\* The one event sent was popped and its worker cancelled inside the
\* transaction: nothing of it is in the store and it is not on the queue.
AtomicUnderCancellationWitness ==
    /\ Len(pushed) = 1
    /\ junk = 0
    /\ Len(popped) = 1
    /\ Dropped = 1
    /\ \E w \in DOMAIN pc : pc[w] = "cancelled"
    /\ queue = <<>>
    /\ processed_events = <<>>
    /\ events = <<>>
    /\ stats = ZeroStats

\* ---- C23 -----------------------------------------------------------------
\* Worker w has been spawned: asyncio.gather has made a task of its
\* Consumer.start coroutine.
Spawned(w) ==
    \/ pc[w] \notin {"unborn", "connected"}
    \/ pc[w] = "connected" /\ consumer_task \in {"gather", "cancelling"}

\* Worker w is polling the queue, committing or backing off.
Active(w) == pc[w] \notin {"unborn", "connected", "exited", "cancelled"}

\* The steps of the startup sequence in their order, and no worker at work
\* before the store pool is open.
StartupSequence ==
    /\ db = "None" <=> lifespan = "starting"
    /\ redis_client # "None" => pool.open \/ lifespan = "stopped"
    /\ consumer_task # "None" => redis_client # "None"
    /\ lifespan = "spawned" => pool.open /\ redis_client = "open"
    /\ lifespan = "ready" => pool.open /\ redis_client = "open"
    /\ \A w \in DOMAIN pc : Active(w) \/ cur[w] # <<>> => pool.open

\* C23 as stated: startup order.  The store pool is opened first, then the
\* broker connection, then the N workers are spawned, and only then is the
\* service ready; no worker pops or commits before the pool is open, and the
\* service is never ready before its N workers have been spawned.
StartupOrder ==
    /\ StartupSequence
    /\ lifespan = "ready" => \A w \in DOMAIN pc : Spawned(w)

\* C23, amended: startup order.  The store pool is opened first, then the
\* broker connection, then the task that spawns the N workers is scheduled,
\* and only then is the service ready; no worker pops or commits before the
\* pool is open, and the service is never ready before that task has been
\* scheduled.  The workers themselves are created and started by the task
\* once the event loop runs it, which is after lifespan has yielded.
StartupOrderScheduled ==
    /\ StartupSequence
    /\ lifespan = "ready" => consumer_task # "None"
    /\ (\E w \in DOMAIN pc : pc[w] # "unborn")
          => lifespan \notin {"starting", "db_connected", "redis_connected",
                              "spawned", "failed"}

\* The service is ready and has accepted a publish; start_consumers is
\* scheduled and has not created its first Consumer.
StartupOrderScheduledWitness ==
    /\ lifespan = "ready"
    /\ pool.open
    /\ redis_client = "open"
    /\ consumer_task = "scheduled"
    /\ \A w \in DOMAIN pc : pc[w] = "unborn"
    /\ Len(queue) = 1

\* ---- C24 -----------------------------------------------------------------
\* C24: shutdown order.  The worker pool is cancelled, then the workers are
\* awaited until all have ended, then the broker client of the API is
\* closed, then the store pool: the task of the workers ends only after the
\* cancellation and with every worker ended, the broker client is closed
\* only after the await has returned, the pool only after the broker client.
\* The pool is never closed while a worker can still pop a message or is
\* inside a commit transaction.
ShutdownOrder ==
    /\ [][consumer_task' # consumer_task /\ consumer_task' = "cancelling"
            => lifespan = "ready" /\ lifespan' = "awaiting"]_vars
    /\ [][consumer_task' # consumer_task /\ consumer_task' = "done"
            => /\ lifespan' = "awaiting"
               /\ \A w \in DOMAIN pc : ~Active(w)]_vars
    /\ [][lifespan = "awaiting" /\ lifespan' # lifespan
            => /\ lifespan' = "awaited"
               /\ consumer_task = "done"
               /\ \A w \in DOMAIN pc : ~Active(w) /\ ~running[w]]_vars
    /\ [][redis_client' # redis_client /\ redis_client' = "closed"
            => /\ lifespan = "awaited"
               /\ consumer_task = "done"
               /\ pool.open]_vars
    /\ [][pool.open /\ ~pool'.open
            => /\ redis_client = "closed"
               /\ consumer_task = "done"
               /\ pool.leased = 0
               /\ \A w \in DOMAIN pc :
                     ~Active(w) /\ ~InTransaction(w) /\ cur[w] = <<>>]_vars
    /\ [](lifespan \in {"awaited", "redis_closed", "stopped"}
            => /\ consumer_task = "done"
               /\ \A w \in DOMAIN pc : ~Active(w) /\ ~InTransaction(w))
    /\ [](lifespan = "stopped" => redis_client = "closed" /\ ~pool.open)
    /\ [][\A w \in DOMAIN pc : Active(w) /\ pc'[w] # pc[w] /\ pc'[w] \notin {"exited", "cancelled"}
            => pool.open /\ consumer_task = "gather"]_vars

\* The shutdown has run to its end: two events were committed, a third was
\* popped by a worker that the cancellation ended inside its transaction,
\* and the pool was closed after that.
ShutdownOrderWitness ==
    /\ lifespan = "stopped"
    /\ ~pool.open
    /\ redis_client = "closed"
    /\ \A w \in DOMAIN pc : pc[w] = "cancelled"
    /\ Len(results) = 2
    /\ Len(pushed) = 3
    /\ raised = <<>>
    /\ queue = <<>>

\* ---- C25 -----------------------------------------------------------------
\* A step that answers GET /health.
HealthStep ==
    /\ response' # response
    /\ response'.kind \in {"health", "error"}

\* C25: health check.  GET /health answers 200 only when the store handle
\* exists and its pool is open, and 503 in every other case, the one where
\* the handle does not exist yet included; a failed ping is reported as
\* False and never raised, so no other error status is answered; the check
\* changes nothing but the response.
HealthCheck ==
    /\ [][HealthStep =>
            /\ response' \in {[kind |-> "health", status |-> "healthy"],
                              HTTPException(503)}
            /\ response'.kind = "health" => db # "None" /\ pool.open
            /\ db = "None" \/ ~pool.open => response' = HTTPException(503)
            /\ UNCHANGED <<queue, batch, pc, cur, result, txn, storeVars,
                           pushed, results, raised, poolVars, loopVars,
                           trace, request, batch_results, stats_row,
                           envVars, mainVars>>]_vars
    /\ [](response.kind = "error" => response.status_code = 503)

\* /health was asked before the store handle existed and answered 503.
HealthCheckWitness ==
    /\ db = "None"
    /\ lifespan = "starting"
    /\ response = HTTPException(503)

\* ---- C26 -----------------------------------------------------------------
\* The stored events that match a supplied topic; all of them when none is
\* supplied.
Matching(topic) ==
    { i \in 1..Len(events) : topic # None => events[i].topic = topic }

\* C26: query result.  get_events(topic, limit) returns min(limit, m) of the
\* m stored events that match, each at most once, where a row matches a
\* supplied topic when its topic equals it and every row matches when no
\* topic is supplied; every returned event carries the requested topic.
\* (The order by received_at, a column the database fills in, is not part of
\* the model.)
QueryResult ==
    [][response' # response /\ response'.kind = "events" =>
         LET topic == request'[1]
             limit == request'[2]
             m == Cardinality(Matching(topic))
             r == response'
         IN /\ r.topic_filter = topic
            /\ r.total = IF limit < m THEN limit ELSE m
            /\ Len(r.events) = r.total
            /\ \A i \in 1..Len(r.events) :
                  /\ \E j \in Matching(topic) : r.events[i] = EventDict(events[j])
                  /\ topic # None => r.events[i].topic = topic
            /\ \A i, j \in 1..Len(r.events) :
                  r.events[i] = r.events[j] => i = j]_vars

\* ---- C27 -----------------------------------------------------------------
\* The validated events of the bodies sent, and the instant an ISO text of
\* a stored row names (its clock reading less its offset from UTC).
ValidInputs == { Validate(b)[1] : b \in { r \in RawBodies : Validate(r) # <<>> } }
UtcInstant(text) ==
    text[1] - (IF text[2] = "+07:00" THEN 25200 ELSE 0)

Padded(s) ==
    Len(s) > 0 /\ (SubSeq(s, 1, 1) = " " \/ SubSeq(s, Len(s), Len(s)) = " ")
RECURSIVE Core(_)
Core(s) ==
    IF ~Padded(s) THEN s
    ELSE IF SubSeq(s, 1, 1) = " " THEN Core(SubSeq(s, 2, Len(s)))
    ELSE Core(SubSeq(s, 1, Len(s) - 1))

\* A body whose three identifiers have between 1 and 255 characters once
\* the blanks around them are taken away.
Acceptable(b) ==
    \A s \in {b.topic, b.event_id, b.source} :
        Len(Core(s)) >= 1 /\ Len(Core(s)) <= 255

\* C28: identifier normalization.  topic, event_id and source are stripped
\* of leading and trailing whitespace before their length (1..255) is
\* checked: a body is accepted exactly when its stripped identifiers have
\* that length, and the event enqueued for it carries them stripped; an
\* identifier of whitespace only is rejected; every stored row holds
\* stripped identifiers; two bodies whose keys differ only by surrounding
\* whitespace get the same dedup key and so at most one row.
IdentifierNormalization ==
    /\ [][response' # response \/ pushed' # pushed =>
            LET b == request'[1]
            IN IF Acceptable(b)
               THEN /\ Len(pushed') = Len(pushed) + 1
                    /\ pushed'[Len(pushed')].topic = Core(b.topic)
                    /\ pushed'[Len(pushed')].event_id = Core(b.event_id)
                    /\ pushed'[Len(pushed')].source = Core(b.source)
                    /\ response' = EventResponse(Core(b.event_id), "queued", TRUE)
               ELSE /\ UNCHANGED <<pushed, queue>>
                    /\ response' = HTTPException(422)]_vars
    /\ [](\A b \in RawBodies :
            (\E s \in {b.topic, b.event_id, b.source} : Core(s) = "")
                => Validate(b) = <<>>)
    /\ [](\A r \in 1..Len(events) :
            \A s \in {events[r].topic, events[r].event_id, events[r].source} :
                ~Padded(s) /\ Len(s) >= 1 /\ Len(s) <= 255)
    /\ [](\A r \in 1..Len(processed_events) :
            \A s \in {processed_events[r][1], processed_events[r][2]} :
                ~Padded(s) /\ Len(s) >= 1 /\ Len(s) <= 255)
    /\ [](\A b1, b2 \in { b \in RawBodies : Acceptable(b) } :
            Core(b1.topic) = Core(b2.topic) /\ Core(b1.event_id) = Core(b2.event_id)
                => /\ Validate(b1) # <<>> /\ Validate(b2) # <<>>
                   /\ KeyOf(Validate(b1)[1]) = KeyOf(Validate(b2)[1])
                   /\ Cardinality({ r \in 1..Len(processed_events) :
                          processed_events[r] =
                              <<Core(b1.topic), Core(b1.event_id)>> }) <= 1)

\* The key was sent twice, the second time padded with blanks: one commit
\* was new, the other a duplicate, and the one row holds it stripped.
IdentifierNormalizationWitness ==
    /\ request = <<Body("  topic.a  ", " shared_001", <<1700025201, "+07:00">>)>>
    /\ Len(pushed) = 2
    /\ Len(results) = 2
    /\ results[1].is_new /\ ~results[2].is_new
    /\ processed_events = << <<"topic.a", "shared_001">> >>
    /\ Len(events) = 1

\* ---- C29 -----------------------------------------------------------------
\* Table `new` is table `old` with rows added at its end, if any.
Extends(new, old) ==
    /\ Len(new) >= Len(old)
    /\ \A r \in 1..Len(old) : new[r] = old[r]

\* C29: immutability.  Whatever the operation (publish, batch publish,
\* commit on either path, failed commit, query, stats, health, shutdown), a
\* committed row of events or processed_events is never deleted or changed,
\* none of the three counters ever decreases, and started_at never changes.
Immutability ==
    [][/\ Extends(events', events)
       /\ Extends(processed_events', processed_events)
       /\ stats'.received_count >= stats.received_count
       /\ stats'.unique_processed_count >= stats.unique_processed_count
       /\ stats'.duplicate_dropped_count >= stats.duplicate_dropped_count
       /\ stats'.started_at = stats.started_at]_vars

\* The service has shut down after commits on both paths and a failed one:
\* the rows and the counters are still there.
ImmutabilityWitness ==
    /\ lifespan = "stopped"
    /\ Len(raised) = 1
    /\ Len(events) = 1
    /\ Len(processed_events) = 1
    /\ stats.unique_processed_count = 1
    /\ stats.duplicate_dropped_count = 1
    /\ stats.started_at = "created"

ShutdownEnded == lifespan \in {"stopped", "raised"}

\* C31: shutdown always releases resources.  Whatever state the task of the
\* worker pool is in when the shutdown begins, the one where it has already
\* ended with an error other than cancellation included, the shutdown
\* sequence does not end before it has closed the broker client of the API
\* and the store pool.
ShutdownReleases ==
    ShutdownEnded => redis_client = "closed" /\ ~pool.open

\* ---- C32 -----------------------------------------------------------------
\* The position in the enqueue order of the first message of key k.
FirstPushed(k) == CHOOSE i \in PushedOf(k) : \A j \in PushedOf(k) : i <= j

\* C32: no ordering across workers.  With exactly one worker and no errors
\* the commits happen in enqueue order, the n-th commit being that of the
\* n-th message enqueued, and the events row of each key carries the body of
\* the first message enqueued with that key.  With two or more workers
\* neither holds: a message enqueued later can commit first, and a later
\* message of a key can be the one stored (the state OrderFreeWitness).
SingleWorkerOrder ==
    Cardinality(DOMAIN pc) = 1 /\ raised = <<>>
      => /\ Len(results) <= Len(pushed)
         /\ \A i \in 1..Len(results) : results[i].event = pushed[i]
         /\ \A r \in 1..Len(events) :
               LET k == <<events[r].topic, events[r].event_id>>
                   e == pushed[FirstPushed(k)]
               IN /\ PushedOf(k) # {}
                  /\ json_loads(events[r].payload) = e.payload
                  /\ events[r].source = e.source
                  /\ events[r].timestamp = isoformat(e.timestamp)

\* Two workers, three messages, no error: the second message enqueued, of
\* the same key as the first and with another body, committed first and is
\* the one stored; the third, of another key, committed next; the first
\* message enqueued committed last, as a duplicate.
OrderFreeWitness ==
    /\ Cardinality(DOMAIN pc) >= 2
    /\ raised = <<>>
    /\ Len(pushed) = 3
    /\ Len(results) = 3
    /\ DedupKey(pushed[1]) = DedupKey(pushed[2])
    /\ pushed[1].payload # pushed[2].payload
    /\ DedupKey(pushed[3]) # DedupKey(pushed[1])
    /\ results[1].event = pushed[2] /\ results[1].is_new
    /\ results[2].event = pushed[3] /\ results[2].is_new
    /\ results[3].event = pushed[1] /\ ~results[3].is_new
    /\ \E r \in 1..Len(events) :
          /\ <<events[r].topic, events[r].event_id>> = DedupKey(pushed[2])
          /\ json_loads(events[r].payload) = pushed[2].payload

\* ---- C33 -----------------------------------------------------------------
\* A popped message that parsed into an event, and the popped messages that
\* did not.
IsEvent(m) == \E i \in 1..Len(pushed) : Carries(m, pushed[i])
ParseFailures == { i \in 1..Len(popped) : ~IsEvent(popped[i]) }

\* The popped messages that are neither held, committed, failed to parse
\* nor rolled back by a store error.
Lost ==
    Len(popped) - Cardinality(Holding) - stats.received_count
      - Cardinality(ParseFailures) - Len(raised)

\* C33: message conservation.  Every message pushed is still in the queue
\* or has been popped once; a pop hands the head of the queue to exactly one
\* worker, and a worker holds a message only from its pop; a held message
\* leaves its worker by exactly one of a commit (counted once in
\* received_count), a store error or the cancellation of the worker, and
\* received_count grows only so.  Hence the popped messages are exactly the
\* held, the committed and the dropped ones (parse failure, store error,
\* cancellation), received_count never exceeds the number of messages
\* pushed, and no more commits are attempted than events were enqueued.
MessageConservation ==
    /\ [](Len(pushed) + junk = Len(queue) + Len(popped))
    /\ [][popped' # popped
            => /\ queue # <<>>
               /\ popped' = Append(popped, Head(queue))
               /\ queue' = Tail(queue)
               /\ Cardinality({ w \in DOMAIN cur : cur'[w] # cur[w] }) <= 1
               /\ \A w \in DOMAIN cur :
                     cur'[w] # cur[w]
                       => cur[w] = <<>> /\ Carries(Head(queue), cur'[w][1])]_vars
    /\ [][\A w \in DOMAIN cur :
            cur'[w] # cur[w] /\ cur'[w] # <<>> => popped' # popped]_vars
    /\ [][\A w \in DOMAIN cur :
            cur[w] # <<>> /\ cur'[w] # cur[w]
              => /\ cur'[w] = <<>>
                 /\ \A w2 \in DOMAIN cur \ {w} : cur'[w2] = cur[w2]
                 /\ \/ /\ stats'.received_count = stats.received_count + 1
                       /\ results' = Append(results, results'[Len(results')])
                       /\ results'[Len(results')].event = cur[w][1]
                       /\ raised' = raised
                       /\ pc'[w] # "cancelled"
                    \/ /\ stats' = stats /\ results' = results
                       /\ Len(raised') = Len(raised) + 1
                       /\ pc'[w] # "cancelled"
                    \/ /\ stats' = stats /\ results' = results
                       /\ raised' = raised
                       /\ pc'[w] = "cancelled"]_vars
    /\ [][stats'.received_count # stats.received_count
            => \E w \in DOMAIN cur : cur[w] # <<>> /\ cur'[w] = <<>>]_vars
    /\ [](/\ Lost >= 0
          /\ Lost <= Cardinality({ w \in DOMAIN pc : pc[w] = "cancelled" })
          /\ stats.received_count <= Len(pushed)
          /\ Len(popped) - Cardinality(ParseFailures) <= Len(pushed))

\* Three messages were pushed and each is in one place: one was committed,
\* one was dropped with its cancelled worker, and one, which will not
\* parse, is still in the queue.
MessageConservationWitness ==
    /\ Len(pushed) = 2
    /\ junk = 1
    /\ Len(queue) = 1
    /\ ~IsEvent(queue[1])
    /\ stats.received_count = 1
    /\ Lost = 1
    /\ Holding = {}

\* ---- C34 -----------------------------------------------------------------
\* Worker w's transaction ends in this step without committing: an
\* exception or the cancellation of the worker.
Aborts(w) == cur[w] # <<>> /\ cur'[w] = <<>> /\ results' = results

\* C34: aborted winner.  A transaction that ends without committing leaves
\* no dedup row, events row or count behind, whether or not it had inserted
\* its dedup row; the committed dedup rows are those of the commits that
\* returned new.  A commit returns duplicate only when a commit of its key
\* has returned new before it, never because of an aborted attempt: the
\* first commit of a key to finish, one that waited on an aborted winner
\* included, returns new and stores its event.  Among the commits of one key
\* exactly one is new.
AbortedWinner ==
    /\ [][\A w \in DOMAIN cur :
            Aborts(w) => /\ UNCHANGED storeVars
                         /\ txn'[w].dedup = <<>>
                         /\ txn'[w].event = <<>>]_vars
    /\ [](\A k \in Keys :
            /\ DedupRows(k) # {} <=> NewCalls(k) # {}
            /\ EventRows(k) # {} <=> NewCalls(k) # {}
            /\ Calls(k) # {} => Cardinality(NewCalls(k)) = 1)
    /\ [][Len(results') > Len(results)
            => LET r == results'[Len(results')]
                   k == DedupKey(r.event)
               IN /\ r.is_new <=> NewCalls(k) = {}
                  /\ r.is_new
                       => \E i \in 1..Len(events') :
                            /\ <<events'[i].topic, events'[i].event_id>> = k
                            /\ json_loads(events'[i].payload) = r.event.payload
                            /\ events'[i].source = r.event.source]_vars

\* The transaction that first inserted the dedup row of a key failed; the
\* commit of the same key that had waited for it returned new, and its
\* event is stored.
AbortedWinnerWitness ==
    /\ Len(raised) = 1
    /\ raised[1]
    /\ Len(results) = 1
    /\ results[1].is_new
    /\ results[1].waited
    /\ Len(events) = 1
    /\ Len(processed_events) = 1

\* ---- C35 -----------------------------------------------------------------
\* C35: stats snapshot consistency.  Every response of GET /stats, produced
\* while the workers commit, describes one committed state of the store:
\* received_total is the sum of unique_processed and duplicate_dropped, and
\* active_topics, the number of distinct topics stored, is not greater
\* than unique_processed of the same response.
StatsSnapshot ==
    response.kind = "stats"
      => /\ response.received_total
               = response.unique_processed + response.duplicate_dropped
         /\ response.active_topics <= response.unique_processed

\* ---- C36 -----------------------------------------------------------------
\* start_consumers has ended: returned, raised or been cancelled.
TaskEnded == consumer_task \in {"done", "failed"}

\* C36: worker connection cleanup.  Once start_consumers has ended, on
\* whatever path (a later consumer failed to connect, the cancellation came
\* while consumers were being connected, a disconnect raised during the
\* cleanup), no consumer connection it has opened is still open.
ConsumerCleanup ==
    TaskEnded => \A w \in DOMAIN redis : redis[w] # "open"

====
